---- MODULE Spec2Model ----
(***************************************************************************)
(* Numenera dungeon generator: the table resolver (utils/dice.py), the     *)
(* table store (utils/file_handler.py), the room generator                 *)
(* (generators/room-generator.py), the dungeon generator                   *)
(* (generators/dungeon_generator.py), the Dungeon / Room records           *)
(* (models/dungeon.py, models/room-model.py) and the console front end     *)
(* (main-script.py).                                                       *)
(*                                                                         *)
(* Python values are encoded as follows.                                   *)
(*   None / a value v       the sequences <<>> and <<v>>                   *)
(*   dict                   a function over its string keys (a record)     *)
(*   list                   a sequence                                     *)
(*   a call                 a record [raised, val, trace]: the exception   *)
(*                          raised ("" when the call returns), the value   *)
(*                          returned, and the calls it made, in order      *)
(* Every random draw is an explicit parameter of the operator that models  *)
(* the function drawing it. An operation that draws several times is the   *)
(* set of its outcomes over all the draws, and the action picks one.       *)
(***************************************************************************)
EXTENDS Integers, Sequences, FiniteSets, TLC

VARIABLES
    heap,       \* the Room and Dungeon objects a caller holds by reference
    editor,     \* the table editor window: NoEditor while it is not open
    store,      \* standard scope of the table store: file name -> file content
    custom_store, \* custom scope of the table store
    dungeon,    \* the Dungeon held by the caller
    file,       \* the dungeon file: None, or the record written by Dungeon.save
    lastOp,     \* name of the last operation run
    arg,        \* its arguments
    rolled,     \* the d100 values drawn by the last resolver-level operation
    ret,        \* its return value: None or <<value>>
    err,        \* the exception it raised, "" when it returned
    trace,      \* the calls it made, in order
    saved       \* history: the Dungeon whose save wrote the file's content, or None

vars == <<heap, editor, store, custom_store, dungeon, file, lastOp, arg, rolled, ret, err, trace, saved>>

None == <<>>
Some(v) == <<v>>

\* val is None or <<value>>, as ret.
Returned(v, tr) == [raised |-> "", val |-> v, trace |-> tr]
Raised(e, tr) == [raised |-> e, val |-> None, trace |-> tr]

Min(S) == CHOOSE x \in S : \A y \in S : x <= y

(***************************************************************************)
(* Bounds of the model.                                                    *)
(***************************************************************************)
MaxLen == 2
MaxRooms == 2
MaxDice == 2
MaxSides == 3
MaxModifier == 2
MaxHeld == 2
MaxRows == 2

(***************************************************************************)
(* utils/dice.py                                                           *)
(***************************************************************************)
D20Sides == 20
D100Sides == 100
D20 == 1..D20Sides
D100 == 1..D100Sides

\* The scan of roll_on_table from entry i on, for the roll r (dice.py:61-66).
\* entry["min"] <= roll <= entry["max"] reads "min" first and "max" only when
\* min <= roll; a missing key raises KeyError.
RECURSIVE ScanEntries(_, _, _)
ScanEntriesStrict(entries, r, i) ==
    IF i > Len(entries)
    THEN Returned(Some(entries[Len(entries)]), <<"roll_on_table", "roll_d100">>)
    ELSE IF entries[i].min < r /\ r < entries[i].max
         THEN Returned(Some(entries[i]), <<"roll_on_table", "roll_d100">>)
         ELSE ScanEntries(entries, r, i + 1)
ScanEntriesNoFallback(entries, r, i) ==
    IF i > Len(entries)
    THEN Returned(None, <<"roll_on_table", "roll_d100">>)
    ELSE IF entries[i].min <= r /\ r <= entries[i].max
         THEN Returned(Some(entries[i]), <<"roll_on_table", "roll_d100">>)
         ELSE ScanEntries(entries, r, i + 1)
ScanEntries(entries, r, i) ==
    IF i > Len(entries)
    THEN Returned(Some(entries[Len(entries)]), <<"roll_on_table", "roll_d100">>)
    ELSE LET entry == entries[i] IN
         IF "min" \notin DOMAIN entry
         THEN Raised("KeyError", <<"roll_on_table", "roll_d100">>)
         ELSE IF entry.min <= r
              THEN IF "max" \notin DOMAIN entry
                   THEN Raised("KeyError", <<"roll_on_table", "roll_d100">>)
                   ELSE IF r <= entry.max
                        THEN Returned(Some(entry), <<"roll_on_table", "roll_d100">>)
                        ELSE ScanEntries(entries, r, i + 1)
              ELSE ScanEntries(entries, r, i + 1)

\* roll_on_table(table_entries), r being the value roll_d100() returns if it
\* is called.
RollOnTableDrawFirst(table_entries, r) ==
    IF Len(table_entries) = 0
    THEN Returned(None, <<"roll_on_table", "roll_d100">>)
    ELSE ScanEntries(table_entries, r, 1)
RollOnTable(table_entries, r) ==
    IF Len(table_entries) = 0
    THEN Returned(None, <<"roll_on_table">>)
    ELSE ScanEntries(table_entries, r, 1)

\* random.randint(a, b): the values a draw can give.
RandInt(a, b) == a..b

RECURSIVE Sum(_)
Sum(seq) == IF seq = <<>> THEN 0 ELSE seq[1] + Sum(Tail(seq))

\* roll_dice(num_dice, sides, modifier): its outcomes over every draw; each
\* carries the values drawn, in order.
RollDiceZeroWhenNoDice(num_dice, sides, modifier) ==
    IF num_dice <= 0 \/ sides <= 0
    THEN {[raised |-> "", val |-> Some(0), trace |-> <<"roll_dice">>, rolls |-> <<>>]}
    ELSE { [raised |-> "", val |-> Some(Sum(rolls) + modifier),
            trace |-> <<"roll_dice">> \o [i \in 1..num_dice |-> "randint"], rolls |-> rolls]
           : rolls \in [1..num_dice -> RandInt(1, sides)] }
RollDice(num_dice, sides, modifier) ==
    IF num_dice <= 0 \/ sides <= 0
    THEN {[raised |-> "", val |-> Some(modifier), trace |-> <<"roll_dice">>, rolls |-> <<>>]}
    ELSE { [raised |-> "", val |-> Some(Sum(rolls) + modifier),
            trace |-> <<"roll_dice">> \o [i \in 1..num_dice |-> "randint"], rolls |-> rolls]
           : rolls \in [1..num_dice -> RandInt(1, sides)] }

\* roll_d20() and roll_d100(): their outcomes over the draw.
RollD20 == {Returned(Some(r), <<"roll_d20", "randint">>) : r \in RandInt(1, D20Sides)}
RollD100 == {Returned(Some(r), <<"roll_d100", "randint">>) : r \in RandInt(1, D100Sides)}

\* The number of die rolls among the calls of a trace.
Draws(tr) == Cardinality({i \in 1..Len(tr) : tr[i] \in {"roll_d100", "roll_d20"}})
\* The number of roll_d100 calls among the calls of a trace.
D100Draws(tr) == Cardinality({i \in 1..Len(tr) : tr[i] = "roll_d100"})

(***************************************************************************)
(* Inputs of the resolver: well-formed entry sequences, in declared order, *)
(* with contiguous, overlapping and gapped ranges.                         *)
(***************************************************************************)
Entry(n, lo, hi) == [name |-> n, min |-> lo, max |-> hi]

EntryPool ==
    { Entry("A", 1, 50), Entry("B", 51, 100), Entry("C", 1, 90),
      Entry("D", 40, 60), Entry("E", 95, 95) }

RECURSIVE SeqsUpTo(_, _)
SeqsUpTo(S, n) ==
    IF n = 0 THEN {<<>>}
    ELSE LET shorter == SeqsUpTo(S, n - 1)
         IN  shorter \cup {Append(s, x) : s \in {t \in shorter : Len(t) = n - 1}, x \in S}

EntrySeqs == SeqsUpTo(EntryPool, MaxLen)

(***************************************************************************)
(* utils/file_handler.py: one scope of the table store (a directory) is a  *)
(* function from file names to file contents; a content is [parses, json]: *)
(* whether json.load accepts it, and the value it yields.                  *)
(***************************************************************************)
JsonFile(v) == [parses |-> TRUE, json |-> v]
Garbage == [parses |-> FALSE, json |-> <<>>]

\* load_table(table_name) on the scope st: "<name>.json" first, then "<name>";
\* a file json.load rejects is reported as None, and the other key is not tried.
LoadTable(st, table_name) ==
    LET with_ext == table_name \o ".json"
        without_ext == table_name
        file_path == IF with_ext \in DOMAIN st THEN Some(with_ext)
                     ELSE IF without_ext \in DOMAIN st THEN Some(without_ext)
                     ELSE None
    IN  IF file_path = None THEN None
        ELSE IF st[file_path[1]].parses THEN Some(st[file_path[1]].json)
        ELSE None

\* load_table(table_name, custom) on the scope st, under what the file system
\* does: "ok"; "stat denied", exists() meeting an error other than the
\* not-found ones, which pathlib re-raises up to Python 3.13 and reports as
\* False from 3.14 on; "read fails", open() or read() failing on a file found.
LoadTableIO(st, table_name, io) ==
    LET t0 == <<"load_table", "exists">>
        found == (table_name \o ".json") \in DOMAIN st \/ table_name \in DOMAIN st
    IN  IF io = "stat denied"
        THEN {Raised("PermissionError", t0), Returned(None, t0)}
        ELSE IF ~found THEN {Returned(None, t0)}
        ELSE IF io = "read fails" THEN {Returned(None, t0 \o <<"open">>)}
        ELSE {Returned(LoadTable(st, table_name), t0 \o <<"open">>)}

\* str.endswith
EndsWith(s, suffix) ==
    Len(s) >= Len(suffix) /\ SubSeq(s, Len(s) - Len(suffix) + 1, Len(s)) = suffix

\* save_table(table_name, data, custom) on the scope st, under what the file
\* system does: "ok"; "mkdir fails", the directory cannot be created; "open
\* fails"; "write fails", json.dump stopping after open() truncated the file.
\* Each outcome carries the scope it leaves.
SaveTable(st, table_name, data, io) ==
    LET file_name == IF EndsWith(table_name, ".json") THEN table_name
                     ELSE table_name \o ".json"
        t0 == <<"save_table", "mkdir">>
        Written(content) == [n \in DOMAIN st \cup {file_name} |->
                                IF n = file_name THEN content ELSE st[n]]
    IN  IF io = "mkdir fails"
        THEN [raised |-> "OSError", val |-> None, trace |-> t0, store |-> st]
        ELSE IF io = "open fails"
        THEN [raised |-> "", val |-> Some(FALSE), trace |-> t0 \o <<"open">>, store |-> st]
        ELSE IF io = "write fails"
        THEN [raised |-> "", val |-> Some(FALSE), trace |-> t0 \o <<"open", "json.dump">>,
              store |-> Written(Garbage)]
        ELSE [raised |-> "", val |-> Some(TRUE), trace |-> t0 \o <<"open", "json.dump">>,
              store |-> Written(JsonFile(data))]

\* Python truthiness of load_table's result and of a resolved entry: None and
\* the empty dict are falsy.
Truthy(opt) == opt # None /\ DOMAIN opt[1] # {}

(***************************************************************************)
(* generators/room-generator.py                                            *)
(***************************************************************************)
\* Room.__init__ (models/room-model.py): the id is left unset.
Room(main_feature, details, exits) ==
    [id |-> None, main_feature |-> main_feature, details |-> details, exits |-> exits]

\* s contains kw as a substring (Python's `kw in s`).
Contains(s, kw) ==
    \E i \in 1..(Len(s) - Len(kw) + 1) : SubSeq(s, i, i + Len(kw) - 1) = kw

\* The keyword chain of generate_exits (room-generator.py:226-243).
ParseExitsSealedFirst(exit_desc) ==
    IF Contains(exit_desc, "sealed exit") THEN <<"Main entrance", "Sealed door">>
    ELSE IF Contains(exit_desc, "No additional exits") THEN <<"Main entrance">>
    ELSE IF Contains(exit_desc, "1 additional exit") THEN <<"Main entrance", "Side passage">>
    ELSE IF Contains(exit_desc, "2 additional exits")
         THEN <<"Main entrance", "Side passage", "Back door">>
    ELSE IF Contains(exit_desc, "trapped exit") THEN <<"Main entrance", "Trapped door">>
    ELSE IF Contains(exit_desc, "hidden exit") THEN <<"Main entrance", "Hidden passage">>
    ELSE <<"Main entrance">>
ParseExits(exit_desc) ==
    IF Contains(exit_desc, "No additional exits") THEN <<"Main entrance">>
    ELSE IF Contains(exit_desc, "1 additional exit") THEN <<"Main entrance", "Side passage">>
    ELSE IF Contains(exit_desc, "2 additional exits")
         THEN <<"Main entrance", "Side passage", "Back door">>
    ELSE IF Contains(exit_desc, "sealed exit") THEN <<"Main entrance", "Sealed door">>
    ELSE IF Contains(exit_desc, "trapped exit") THEN <<"Main entrance", "Trapped door">>
    ELSE IF Contains(exit_desc, "hidden exit") THEN <<"Main entrance", "Hidden passage">>
    ELSE <<"Main entrance">>

\* generate_exits(), r being the d100 value drawn if the exits table is rolled on.
GenerateExitsMainEntrance(st, r) ==
    LET exits_table == LoadTable(st, "exits")
        t0 == <<"generate_exits", "load_table(exits)">>
    IN  IF ~Truthy(exits_table) THEN Returned(Some(<<"Main entrance">>), t0)
        ELSE LET res == RollOnTable(exits_table[1].entries, r)
                 t1 == t0 \o res.trace
             IN  IF res.raised # "" THEN Raised(res.raised, t1)
                 ELSE IF ~Truthy(res.val) THEN Returned(Some(<<"Main entrance">>), t1)
                 ELSE Returned(Some(ParseExits(res.val[1].name)), t1)
GenerateExits(st, r) ==
    LET exits_table == LoadTable(st, "exits")
        t0 == <<"generate_exits", "load_table(exits)">>
    IN  IF ~Truthy(exits_table) THEN Returned(Some(<<"1 exit">>), t0)
        ELSE IF "entries" \notin DOMAIN exits_table[1] THEN Raised("KeyError", t0)
        ELSE LET res == RollOnTable(exits_table[1].entries, r)
                 t1 == t0 \o res.trace
             IN  IF res.raised # "" THEN Raised(res.raised, t1)
                 ELSE IF ~Truthy(res.val) THEN Returned(Some(<<"1 exit">>), t1)
                 ELSE IF "name" \notin DOMAIN res.val[1] THEN Raised("KeyError", t1)
                 ELSE Returned(Some(ParseExits(res.val[1].name)), t1)

\* generate_corridor(), r being the d100 value drawn if corridor_details is
\* rolled on.
GenerateCorridorStrict(st, r) ==
    LET corridor_table == LoadTable(st, "corridor_details")
        t0 == <<"generate_corridor", "load_table(corridor_details)">>
    IN  IF ~Truthy(corridor_table) \/ corridor_table[1].entries = <<>>
        THEN Raised("ValueError: Could not load corridor_details table", t0)
        ELSE Returned(Some([description |-> RollOnTable(corridor_table[1].entries, r).val[1].name]),
                      t0 \o <<"roll_on_table", "roll_d100">>)
GenerateCorridorNoteOnKey(st, r) ==
    LET corridor_table == LoadTable(st, "corridor_details")
        t0 == <<"generate_corridor", "load_table(corridor_details)">>
        res == RollOnTable(corridor_table[1].entries, r)
    IN  IF ~Truthy(corridor_table) \/ ~Truthy(res.val)
        THEN Returned(Some([description |-> "Simple corridor"]), t0)
        ELSE IF "roll_again" \in DOMAIN res.val[1]
        THEN Returned(Some([description |-> res.val[1].name,
                            note |-> "Roll again on the main feature table"]),
                      t0 \o res.trace)
        ELSE Returned(Some([description |-> res.val[1].name]), t0 \o res.trace)
GenerateCorridor(st, r) ==
    LET corridor_table == LoadTable(st, "corridor_details")
        t0 == <<"generate_corridor", "load_table(corridor_details)">>
    IN  IF ~Truthy(corridor_table)
        THEN Returned(Some([description |-> "Simple corridor"]), t0)
        ELSE IF "entries" \notin DOMAIN corridor_table[1] THEN Raised("KeyError", t0)
        ELSE LET res == RollOnTable(corridor_table[1].entries, r)
                 t1 == t0 \o res.trace
             IN  IF res.raised # "" THEN Raised(res.raised, t1)
                 ELSE IF ~Truthy(res.val)
                 THEN Returned(Some([description |-> "Simple corridor"]), t1)
                 ELSE IF "name" \notin DOMAIN res.val[1] THEN Raised("KeyError", t1)
                 ELSE IF "roll_again" \in DOMAIN res.val[1] /\ res.val[1].roll_again
                 THEN Returned(Some([description |-> res.val[1].name,
                                     note |-> "Roll again on the main feature table"]), t1)
                 ELSE Returned(Some([description |-> res.val[1].name]), t1)

\* The inline tables of generate_chamber.
size_table ==
    << Entry("Closet-sized", 1, 2), Entry("15 feet (5 m) across", 3, 6),
       Entry("30 feet (9 m) across", 7, 15), Entry("50 feet (15 m) across", 16, 18),
       Entry("60 feet (18 m) across", 19, 19), Entry("90 feet (27 m) across", 20, 20) >>
shape_table ==
    << Entry("Circle", 1, 2), Entry("Square", 3, 4), Entry("Rectangle", 5, 17),
       Entry("Hexagon", 18, 18), Entry("Half circle", 19, 19), Entry("Triangle", 20, 20) >>

\* generate_chamber(), r_size and r_shape being the two d100 values drawn.
GenerateChamber(r_size, r_shape) ==
    LET size_entry == RollOnTable(size_table, r_size)
        shape_entry == RollOnTable(shape_table, r_shape)
    IN  Returned(Some([size |-> IF Truthy(size_entry.val) THEN size_entry.val[1].name
                                ELSE "Medium sized",
                       shape |-> IF Truthy(shape_entry.val) THEN shape_entry.val[1].name
                                 ELSE "Rectangular",
                       features |-> "Various furnishings and decorations"]),
                 <<"generate_chamber">> \o size_entry.trace \o shape_entry.trace)

\* generate_creature(), d20 being the value roll_d20() returns.
GenerateCreatureZeroBased(d20) ==
    Returned(Some([description |-> "A creature lurks here",
                   creature_type |-> "Level " \o ToString(d20 % 10) \o " hostile entity"]),
             <<"generate_creature", "roll_d20">>)
GenerateCreature(d20) ==
    Returned(Some([description |-> "A creature lurks here",
                   creature_type |-> "Level " \o ToString((d20 % 10) + 1) \o " hostile entity"]),
             <<"generate_creature", "roll_d20">>)

\* The placeholder generators (room-generator.py:159-205).
PlaceholderDescription ==
    ( "Explorers"           :> "A group of explorers is here" ) @@
    ( "Interstitial cavity" :> "A vast interstitial cavity" ) @@
    ( "Accessway"           :> "An accessway connecting areas" ) @@
    ( "Rupture"             :> "A rupture in the structure" ) @@
    ( "Shaft"               :> "A vertical shaft" ) @@
    ( "Abhuman Colony"      :> "An abhuman colony resides here" ) @@
    ( "Integrated Machine"  :> "An integrated machine dominates this area" ) @@
    ( "Matter leak"         :> "A strange matter leak is present" ) @@
    ( "Energy discharge"    :> "Energy discharges pulse through this area" ) @@
    ( "Weird event"         :> "A bizarre phenomenon occurs here" ) @@
    ( "Vault"               :> "A secure vault containing treasures" ) @@
    ( "Relic Chamber"       :> "A chamber housing a powerful relic" )

\* A placeholder generator: it loads no table and draws no roll.
GeneratePlaceholder(main_feature) ==
    Returned(Some([description |-> PlaceholderDescription[main_feature]]),
             <<"generate_placeholder">>)

\* self.feature_generators (room-generator.py:29-45): the registered names.
feature_generatorsNoVault ==
    ({"Corridor", "Chamber", "Creature"} \cup DOMAIN PlaceholderDescription) \ {"Vault"}
feature_generators ==
    {"Corridor", "Chamber", "Creature"} \cup DOMAIN PlaceholderDescription

\* The outcomes of generate_chamber over its two draws.
ChamberOutcomes == {GenerateChamber(r_size, r_shape) : r_size \in D100, r_shape \in D100}

\* The outcomes of the generator registered for main_feature, over every draw.
FeatureOutcomes(st, main_feature) ==
    IF main_feature = "Corridor" THEN {GenerateCorridor(st, r) : r \in D100}
    ELSE IF main_feature = "Chamber" THEN ChamberOutcomes
    ELSE IF main_feature = "Creature" THEN {GenerateCreature(d) : d \in D20}
    ELSE {GeneratePlaceholder(main_feature)}

\* The two fail-fast statements of generate_room (room-generator.py:56-57, 60-61).
CouldNotLoad(tr) == {Raised("ValueError: Could not load main_features table", tr)}
FailedToRollSoft(tr) ==
    {Returned(Some(Room("Empty room", [description |-> "Empty room"], <<"1 exit">>)), tr)}
FailedToRoll(tr) == {Raised("ValueError: Failed to roll on main_features table", tr)}

\* generate_room(): the set of its outcomes over every draw. Each outcome is
\* the exception raised or the Room returned, with the calls made.
GenerateRoomOutcomes(st) ==
    LET main_feature_table == LoadTable(st, "main_features")
        t0 == <<"generate_room", "load_table(main_features)">>
    IN  IF ~Truthy(main_feature_table)
        THEN CouldNotLoad(t0)
        ELSE IF "entries" \notin DOMAIN main_feature_table[1]
        THEN {Raised("KeyError", t0)}
        ELSE UNION {
            LET t1 == t0 \o main_feature_entry.trace
            IN  IF main_feature_entry.raised # ""
                THEN {Raised(main_feature_entry.raised, t1)}
                ELSE IF ~Truthy(main_feature_entry.val)
                THEN FailedToRoll(t1)
                ELSE IF "name" \notin DOMAIN main_feature_entry.val[1]
                THEN {Raised("KeyError", t1)}
                ELSE LET main_feature == main_feature_entry.val[1].name
                         details == IF main_feature \in feature_generators
                                    THEN FeatureOutcomes(st, main_feature)
                                    ELSE {Returned(Some([description |-> "Empty room"]), <<>>)}
                         exits == {GenerateExits(st, r) : r \in D100}
                     IN  UNION {
                           IF d.raised # "" THEN {Raised(d.raised, t1 \o d.trace)}
                           ELSE { IF x.raised # ""
                                  THEN Raised(x.raised, t1 \o d.trace \o x.trace)
                                  ELSE Returned(Some(Room(main_feature, d.val[1], x.val[1])),
                                                t1 \o d.trace \o x.trace)
                                  : x \in exits }
                           : d \in details }
            : main_feature_entry \in {RollOnTable(main_feature_table[1].entries, r) : r \in D100} }

\* generate_room() on given draws: draws.d100 is the sequence of values the
\* successive roll_d100 calls return, draws.d20 the value of roll_d20.
GenerateRoomRolled(st, draws) ==
    LET main_feature_table == LoadTable(st, "main_features")
        t0 == <<"generate_room", "load_table(main_features)">>
    IN  IF ~Truthy(main_feature_table) THEN Raised("ValueError: Could not load main_features table", t0)
        ELSE IF "entries" \notin DOMAIN main_feature_table[1] THEN Raised("KeyError", t0)
        ELSE LET main_feature_entry == RollOnTable(main_feature_table[1].entries, draws.d100[1])
                 t1 == t0 \o main_feature_entry.trace
             IN  IF main_feature_entry.raised # "" THEN Raised(main_feature_entry.raised, t1)
                 ELSE IF ~Truthy(main_feature_entry.val)
                 THEN Raised("ValueError: Failed to roll on main_features table", t1)
                 ELSE IF "name" \notin DOMAIN main_feature_entry.val[1] THEN Raised("KeyError", t1)
                 ELSE LET main_feature == main_feature_entry.val[1].name
                          next == D100Draws(t1) + 1
                          details ==
                              IF main_feature \notin feature_generators
                              THEN Returned(Some([description |-> "Empty room"]), <<>>)
                              ELSE IF main_feature = "Corridor"
                              THEN GenerateCorridor(st, draws.d100[next])
                              ELSE IF main_feature = "Chamber"
                              THEN GenerateChamber(draws.d100[next], draws.d100[next + 1])
                              ELSE IF main_feature = "Creature" THEN GenerateCreature(draws.d20)
                              ELSE GeneratePlaceholder(main_feature)
                          t2 == t1 \o details.trace
                          exits == GenerateExits(st, draws.d100[D100Draws(t2) + 1])
                      IN  IF details.raised # "" THEN Raised(details.raised, t2)
                          ELSE IF exits.raised # "" THEN Raised(exits.raised, t2 \o exits.trace)
                          ELSE Returned(Some(Room(main_feature, details.val[1], exits.val[1])),
                                        t2 \o exits.trace)

\* RoomGenerator(use_custom_tables).generate_room() on the two scopes of the
\* table store: the flag is stored by __init__ and read nowhere, and every
\* load_table call leaves custom at its default False, so the tables come from
\* the standard scope.
GenerateRoomPreferCustom(st, custom_st, use_custom_tables, draws) ==
    IF use_custom_tables /\ "main_features.json" \in DOMAIN custom_st
    THEN GenerateRoomRolled(custom_st @@ st, draws)
    ELSE GenerateRoomRolled(st, draws)
GenerateRoomScoped(st, custom_st, use_custom_tables, draws) ==
    GenerateRoomRolled(st, draws)

(***************************************************************************)
(* models/dungeon.py, models/room-model.py                                 *)
(***************************************************************************)
\* Dungeon.__init__(name), now being datetime.now().isoformat().
Dungeon(name, now) == [name |-> name, rooms |-> <<>>, created_at |-> now, notes |-> ""]

\* Dungeon.add_room(room): the id is the position the room is appended at.
AddRoomZeroBased(d, room) ==
    [d EXCEPT !.rooms = Append(@, [room EXCEPT !.id = Some(Len(d.rooms))])]
AddRoom(d, room) ==
    [d EXCEPT !.rooms = Append(@, [room EXCEPT !.id = Some(Len(d.rooms) + 1)])]

\* Dungeon.get_room(room_id): linear scan, first match, None when no room matches.
RECURSIVE ScanRooms(_, _, _)
ScanRooms(rooms, room_id, i) ==
    IF i > Len(rooms) THEN None
    ELSE IF rooms[i].id = Some(room_id) THEN Some(rooms[i])
    ELSE ScanRooms(rooms, room_id, i + 1)
GetRoom(d, room_id) == ScanRooms(d.rooms, room_id, 1)

\* Rooms and Dungeons as objects: heap.rooms[ref] is the Room object ref, and
\* heap.dungeons[d].rooms is the list of the Room references Dungeon d holds,
\* so that one Room can be in several lists, or twice in one.
NoObjects == [rooms |-> <<>>, dungeons |-> <<>>]
TwoDungeons ==
    [rooms |-> <<>>,
     dungeons |-> << Dungeon("Random Dungeon", "2025-01-01T10:00:00"),
                     Dungeon("Test", "2025-01-01T10:00:00") >>]

\* Dungeon.add_room(room) on the objects: the id is assigned to the Room
\* object itself, whatever it was, and the reference is appended.
AddRoomRef(h, d, ref) ==
    [h EXCEPT !.rooms[ref].id = Some(Len(h.dungeons[d].rooms) + 1),
              !.dungeons[d].rooms = Append(@, ref)]

\* Dungeon.get_room(room_id) on the objects: the position of the first
\* reference whose Room has the id, 0 when there is none.
GetRoomRef(h, d, room_id) ==
    LET found == {i \in 1..Len(h.dungeons[d].rooms) :
                    h.rooms[h.dungeons[d].rooms[i]].id = Some(room_id)}
    IN  IF found = {} THEN 0 ELSE Min(found)

\* DungeonGenerator.regenerate_room(dungeon, room_id) on the objects, new_room
\* being the Room generate_room returned: a new object gets the id and takes
\* the place of the first reference found.
RegenerateRoomRef(h, d, room_id, new_room) ==
    LET i == GetRoomRef(h, d, room_id)
    IN  IF i = 0 THEN h
        ELSE [h EXCEPT !.rooms = Append(@, [new_room EXCEPT !.id = Some(room_id)]),
                       !.dungeons[d].rooms[i] = Len(h.rooms) + 1]

\* dict.get(key, default)
DictGet(data, key, default) == IF key \in DOMAIN data THEN data[key] ELSE default

\* Room.to_dict() and Room.from_dict(data). json.dump followed by json.load maps
\* a dict of strings, integers, None and lists of these to an equal dict, so the
\* file holds the dict itself.
RoomToDict(room) ==
    [id |-> room.id, main_feature |-> room.main_feature,
     details |-> room.details, exits |-> room.exits]
RoomFromDict(data) ==
    [Room(DictGet(data, "main_feature", None), DictGet(data, "details", <<>>),
          DictGet(data, "exits", <<>>))
     EXCEPT !.id = DictGet(data, "id", None)]

\* Dungeon.to_dict()
ToDict(d) ==
    [name |-> d.name, created_at |-> d.created_at, notes |-> d.notes,
     rooms |-> [i \in 1..Len(d.rooms) |-> RoomToDict(d.rooms[i])]]

\* Dungeon.save(filename), io being what the file system does: the file is
\* written, open() fails, or the write fails after open() truncated the file.
\* The outcome carries the file left behind.
Save(d, f, io) ==
    IF io = "ok"
    THEN [raised |-> "", val |-> Some(TRUE), trace |-> <<"save", "to_dict">>,
          file |-> Some([parses |-> TRUE, json |-> ToDict(d)])]
    ELSE IF io = "open fails"
    THEN [raised |-> "", val |-> Some(FALSE), trace |-> <<"save">>, file |-> f]
    ELSE [raised |-> "", val |-> Some(FALSE), trace |-> <<"save", "to_dict">>,
          file |-> Some([parses |-> FALSE, json |-> <<>>])]

\* Dungeon.load(filename), now being datetime.now().isoformat(): rooms are
\* appended as read, without add_room.
LoadedRooms(data) ==
    LET rooms_data == DictGet(data, "rooms", <<>>)
    IN  [i \in 1..Len(rooms_data) |-> RoomFromDict(rooms_data[i])]
LoadFreshTimestamp(f, now) ==
    IF f = None \/ ~f[1].parses THEN Returned(None, <<"load">>)
    ELSE Returned(Some([Dungeon(DictGet(f[1].json, "name", "Loaded Dungeon"), now)
                        EXCEPT !.notes = DictGet(f[1].json, "notes", ""),
                               !.rooms = LoadedRooms(f[1].json)]),
                  <<"load">>)
Load(f, now) ==
    IF f = None \/ ~f[1].parses THEN Returned(None, <<"load">>)
    ELSE LET data == f[1].json
         IN  Returned(Some([Dungeon(DictGet(data, "name", "Loaded Dungeon"), now)
                            EXCEPT !.created_at = DictGet(data, "created_at", now),
                                   !.notes = DictGet(data, "notes", ""),
                                   !.rooms = LoadedRooms(data)]),
                      <<"load">> \o [i \in 1..Len(DictGet(data, "rooms", <<>>)) |-> "from_dict"])

\* Dungeon.load under what the file system does: "ok", or "read fails", open()
\* or read() failing on the file.
LoadIO(f, now, io) == IF io = "read fails" THEN Returned(None, <<"load">>) ELSE Load(f, now)

(***************************************************************************)
(* Table stores the model starts from.                                     *)
(***************************************************************************)
EmptyStore == <<>>
Table(n, es) == [table_info |-> [name |-> n, description |-> ""], entries |-> es]
Flagged(e) == e @@ [roll_again |-> TRUE]

\* A main_features table with a gap (91..100 falls back to the last entry).
MainGapped == Table("main_features", <<Entry("Corridor", 1, 40), Entry("Vault", 41, 90)>>)
\* A main_features table whose second entry has no range: a roll above 50
\* reaches it and raises KeyError.
MainBroken == Table("main_features", <<Entry("Explorers", 1, 50), [name |-> "Shaft"]>>)
\* A main_features table naming every kind of feature, and two names that are
\* not registered: "Pit", and "corridor", which differs from a registered name
\* by case only.
MainRich ==
    Table("main_features",
          << Entry("Corridor", 1, 20), Entry("Chamber", 21, 40), Entry("Creature", 41, 60),
             Entry("Relic Chamber", 61, 80), Entry("Pit", 81, 90),
             Entry("corridor", 91, 100) >>)
MainEmpty == Table("main_features", <<>>)
CorridorDetails ==
    Table("corridor_details",
          << Entry("Straight corridor", 1, 50),
             Entry("Sloping corridor", 51, 70) @@ [roll_again |-> FALSE],
             Flagged(Entry("Dead end", 71, 100)) >>)
CorridorPlain == Table("corridor_details", <<Entry("Straight corridor", 1, 100)>>)
ExitsTwo == Table("exits", <<Entry("2 additional exits", 1, 100)>>)
ExitsRich ==
    Table("exits",
          << Entry("No additional exits", 1, 10), Entry("1 additional exit", 11, 20),
             Entry("2 additional exits", 21, 30), Entry("A sealed exit", 31, 40),
             Entry("A trapped exit", 41, 50), Entry("A hidden exit", 51, 60),
             Entry("Collapsed tunnel", 61, 70), Entry("no additional exits", 71, 75),
             Entry("A Sealed Exit", 76, 80),
             Entry("A hidden exit and a trapped exit", 81, 85),
             Entry("A sealed exit, 2 additional exits", 86, 90),
             Entry("11 additional exits", 91, 95) >>)

StoreSmall ==
    ("main_features.json" :> JsonFile(MainGapped)) @@
    ("corridor_details.json" :> JsonFile(CorridorPlain)) @@
    ("exits.json" :> JsonFile(ExitsTwo))
StoreBroken == ("main_features.json" :> JsonFile(MainBroken))
StoreNoMain == ("exits.json" :> JsonFile(ExitsTwo))
StoreRich ==
    ("main_features.json" :> JsonFile(MainRich)) @@
    ("corridor_details.json" :> JsonFile(CorridorDetails)) @@
    ("exits.json" :> JsonFile(ExitsRich))
StoreMainEmpty ==
    ("main_features.json" :> JsonFile(MainEmpty)) @@
    ("exits.json" :> JsonFile(ExitsRich))
StoreMainGarbage ==
    ("main_features.json" :> Garbage) @@
    ("main_features" :> JsonFile(MainGapped)) @@
    ("exits.json" :> JsonFile(ExitsRich))
StoreNoExt ==
    ("main_features" :> JsonFile(MainGapped)) @@
    ("exits" :> JsonFile(ExitsRich))
StoreExitsEmpty ==
    ("main_features.json" :> JsonFile(MainGapped)) @@
    ("exits.json" :> JsonFile(Table("exits", <<>>)))
\* corridor_details present with zero entries, exits missing.
StoreCorridorEmpty ==
    ("main_features.json" :> JsonFile(MainGapped)) @@
    ("corridor_details.json" :> JsonFile(Table("corridor_details", <<>>)))
\* corridor_details and exits present, neither one parses.
StoreOptionalGarbage ==
    ("main_features.json" :> JsonFile(MainGapped)) @@
    ("corridor_details.json" :> Garbage) @@
    ("exits.json" :> Garbage)
\* corridor_details parses to an object without "entries".
StoreCorridorNoEntries ==
    ("main_features.json" :> JsonFile(MainGapped)) @@
    ("corridor_details.json" :>
        JsonFile([table_info |-> [name |-> "corridor_details", description |-> ""]])) @@
    ("exits.json" :> JsonFile(ExitsTwo))
\* corridor_details has an entry without min after a well-formed one.
StoreCorridorNoMin ==
    ("main_features.json" :> JsonFile(MainGapped)) @@
    ("corridor_details.json" :>
        JsonFile(Table("corridor_details",
                       <<Entry("Straight corridor", 1, 50), [name |-> "Bend", max |-> 100]>>))) @@
    ("exits.json" :> JsonFile(ExitsTwo))
\* exits parses to an object without "entries".
StoreExitsNoEntries ==
    ("main_features.json" :> JsonFile(MainGapped)) @@
    ("corridor_details.json" :> JsonFile(CorridorPlain)) @@
    ("exits.json" :> JsonFile([table_info |-> [name |-> "exits", description |-> ""]]))
\* exits has an entry without name after a well-formed one.
StoreExitsNoName ==
    ("main_features.json" :> JsonFile(MainGapped)) @@
    ("corridor_details.json" :> JsonFile(CorridorPlain)) @@
    ("exits.json" :>
        JsonFile(Table("exits", <<Entry("1 additional exit", 1, 50), [min |-> 51, max |-> 100]>>)))

DungeonStores == {StoreSmall, StoreBroken, StoreNoMain}
RoomStores ==
    {StoreSmall, StoreBroken, StoreNoMain, StoreRich, StoreMainEmpty, StoreMainGarbage,
     StoreNoExt, StoreExitsEmpty, StoreCorridorEmpty}
\* Stores whose corridor_details or exits file is present and malformed.
MalformedStores ==
    {StoreOptionalGarbage, StoreCorridorNoEntries, StoreCorridorNoMin, StoreExitsNoEntries,
     StoreExitsNoName}

Names == {"Test"}
\* save_table / load_table inputs: a plain name, names that already end in
\* ".json", a name whose file has no extension, and a name with no file.
TableNames == {"t", "t.json", "t.json.json"}
LoadNames == TableNames \cup {"u", "missing"}
TableData == {Table("t", <<Entry("A", 1, 100)>>), Table("t", <<>>)}
StoreNoExtOnly == ("u" :> JsonFile(Table("u", <<Entry("B", 1, 100)>>)))
\* What is typed at run_console's prompts.
RoomCountInputs == {ToString(n) : n \in -1..MaxRooms} \cup {"q", "Q", "abc", "", "+1", "-"}
SaveInputs == {"y", "n"}
ConsoleInputs ==
    {<<room_count>> : room_count \in RoomCountInputs} \cup
    { <<room_count, dungeon_name, save_option>> :
        room_count \in RoomCountInputs, dungeon_name \in Names \cup {""},
        save_option \in SaveInputs }
Themes == {"abandoned", "ice CAVE", ""}
Timestamps == {"2025-01-01T10:00:00", "2025-01-01T10:00:01"}

\* A custom scope holding its own main_features and corridor_details.
CustomCreatures ==
    ("main_features.json" :> JsonFile(Table("main_features", <<Entry("Creature", 1, 100)>>))) @@
    ("corridor_details.json" :>
        JsonFile(Table("corridor_details", <<Entry("Custom corridor", 1, 100)>>)))
CustomStores == {EmptyStore, CustomCreatures, StoreBroken}
\* Values of the dice that reach every entry of MainRich and both halves of
\* the other tables.
D100Sample == {1, 30, 50, 75, 100}
D20Sample == {1, 20}
DrawInputs ==
    {[d100 |-> <<a, b, c, d>>, d20 |-> e] :
        a \in D100Sample, b \in D100Sample, c \in D100Sample, d \in D100Sample,
        e \in D20Sample}

\* The table editor's inputs: texts of the new-table input (empty, valid once
\* stripped, with a space inside, underscores only), the text typed into a
\* row (its min is no integer), a description, and what the file system does
\* on a save.
NewTableInputs == {"", " t ", "a b", "_"}
RowInputs == {[name |-> "B", min |-> "x", max |-> "5"]}
DescriptionInputs == {"Notes"}
EditorIo == {"ok", "open fails"}
\* A standard scope with a table and a file that does not parse, and a custom
\* scope that holds a table already.
StoreEditor == ("exits.json" :> JsonFile(ExitsTwo)) @@ ("broken.json" :> Garbage)
CustomT == ("t.json" :> JsonFile(Table("t", <<Entry("A", 1, 100)>>)))

\* generate_room's outcomes computed once for each store the model starts
\* from; any other store is computed on the spot.
RoomOutcomeCache == {<<st, GenerateRoomOutcomes(st)>> : st \in RoomStores}
RoomOutcomes(st) ==
    IF \E m \in RoomOutcomeCache : m[1] = st
    THEN (CHOOSE m \in RoomOutcomeCache : m[1] = st)[2]
    ELSE GenerateRoomOutcomes(st)

(***************************************************************************)
(* generators/dungeon_generator.py                                         *)
(***************************************************************************)
\* The loop of generate_dungeon with k rooms still to generate; gen is the set
\* of outcomes of one generate_room call.
RECURSIVE GenerateLoopKeepPartial(_, _, _, _)
GenerateLoopKeepPartial(gen, d, tr, k) ==
    IF k <= 0 THEN {Returned(Some(d), tr)}
    ELSE UNION { IF g.raised # "" THEN {Returned(Some(d), tr \o g.trace)}
                 ELSE GenerateLoopKeepPartial(gen, AddRoom(d, g.val[1]),
                                              tr \o g.trace \o <<"add_room">>, k - 1)
                 : g \in gen }
RECURSIVE GenerateLoop(_, _, _, _)
GenerateLoop(gen, d, tr, k) ==
    IF k <= 0 THEN {Returned(Some(d), tr)}
    ELSE UNION { IF g.raised # "" THEN {Raised(g.raised, tr \o g.trace)}
                 ELSE GenerateLoop(gen, AddRoom(d, g.val[1]),
                                   tr \o g.trace \o <<"add_room">>, k - 1)
                 : g \in gen }

\* generate_dungeon(num_rooms, name): its outcomes over every draw.
GenerateDungeonOneShort(st, num_rooms, name, now) ==
    GenerateLoop(RoomOutcomes(st), Dungeon(name, now), <<"generate_dungeon">>,
                 num_rooms - 1)
GenerateDungeon(st, num_rooms, name, now) ==
    GenerateLoop(RoomOutcomes(st), Dungeon(name, now), <<"generate_dungeon">>,
                 num_rooms)

\* str.capitalize(): the first character in upper case, the others in lower
\* case; a character that is not a letter is kept.
LowerCase == "abcdefghijklmnopqrstuvwxyz"
UpperCase == "ABCDEFGHIJKLMNOPQRSTUVWXYZ"
IndexIn(c, alphabet) ==
    IF \E i \in 1..Len(alphabet) : SubSeq(alphabet, i, i) = c
    THEN CHOOSE i \in 1..Len(alphabet) : SubSeq(alphabet, i, i) = c
    ELSE 0
ToUpper(c) ==
    IF IndexIn(c, LowerCase) = 0 THEN c
    ELSE SubSeq(UpperCase, IndexIn(c, LowerCase), IndexIn(c, LowerCase))
ToLower(c) ==
    IF IndexIn(c, UpperCase) = 0 THEN c
    ELSE SubSeq(LowerCase, IndexIn(c, UpperCase), IndexIn(c, UpperCase))
RECURSIVE Lower(_)
Lower(s) == IF s = "" THEN "" ELSE ToLower(SubSeq(s, 1, 1)) \o Lower(SubSeq(s, 2, Len(s)))
Capitalize(s) ==
    IF s = "" THEN "" ELSE ToUpper(SubSeq(s, 1, 1)) \o Lower(SubSeq(s, 2, Len(s)))

\* sep.join(strings)
RECURSIVE Join(_, _)
Join(strings, sep) ==
    IF strings = <<>> THEN ""
    ELSE IF Len(strings) = 1 THEN strings[1]
    ELSE strings[1] \o sep \o Join(Tail(strings), sep)

\* Python's `not x` for a str or None.
Falsy(x) == Len(x) = 0

\* Room.description (models/room-model.py:29-66), as the sequence of the lines
\* of the string it returns: every element but the last is followed by a
\* newline there. keys is the order in which the details dict yields its
\* keys, which is the order they were inserted in.
DescriptionShapeFirst(room, keys) ==
    IF Falsy(room.main_feature) THEN <<"Empty room">>
    ELSE <<room.main_feature \o ":">>
         \o (IF "description" \in DOMAIN room.details
             THEN <<room.details.description>> ELSE <<>>)
         \o (IF room.main_feature = "Chamber" /\ "shape" \in DOMAIN room.details
             THEN <<"Shape: " \o room.details.shape>> ELSE <<>>)
         \o (IF room.main_feature = "Chamber" /\ "size" \in DOMAIN room.details
             THEN <<"Size: " \o room.details.size>> ELSE <<>>)
         \o (LET rest == SelectSeq(keys, LAMBDA k : k \notin {"description", "size", "shape"})
             IN  [i \in 1..Len(rest) |-> Capitalize(rest[i]) \o ": " \o room.details[rest[i]]])
         \o (IF room.exits # <<>>
             THEN <<"Exits: " \o Join(room.exits, ", ")>> ELSE <<"No exits">>)
Description(room, keys) ==
    IF Falsy(room.main_feature) THEN <<"Empty room">>
    ELSE <<room.main_feature \o ":">>
         \o (IF "description" \in DOMAIN room.details
             THEN <<room.details.description>> ELSE <<>>)
         \o (IF room.main_feature = "Chamber" /\ "size" \in DOMAIN room.details
             THEN <<"Size: " \o room.details.size>> ELSE <<>>)
         \o (IF room.main_feature = "Chamber" /\ "shape" \in DOMAIN room.details
             THEN <<"Shape: " \o room.details.shape>> ELSE <<>>)
         \o (LET rest == SelectSeq(keys, LAMBDA k : k \notin {"description", "size", "shape"})
             IN  [i \in 1..Len(rest) |-> Capitalize(rest[i]) \o ": " \o room.details[rest[i]]])
         \o (IF room.exits # <<>>
             THEN <<"Exits: " \o Join(room.exits, ", ")>> ELSE <<"No exits">>)

\* The orders a dict with the key set S can yield its keys in.
KeyOrders(S) ==
    {ks \in [1..Cardinality(S) -> S] : \A i, j \in 1..Cardinality(S) : ks[i] = ks[j] => i = j}

\* The rooms rendered: every Room generate_room returns from the richest
\* store, and Rooms built with the constructor: an empty main_feature, no
\* details, no exits, a Chamber lacking size, and size on a room that is no
\* Chamber. Room() with no argument at all is added by InitDescribe.
DescribedRooms ==
    {o.val[1] : o \in {g \in GenerateRoomOutcomes(StoreRich) : g.raised = ""}} \cup
    { Room("", [description |-> "Nothing"], <<"Door">>),
      Room("Chamber", <<>>, <<>>),
      Room("Chamber", [shape |-> "Oval", description |-> "A hall"], <<"Door", "Archway">>),
      Room("Vault", [size |-> "Tiny", description |-> "A vault", loot |-> "Cypher"], <<>>),
      Room("Pit", [depth |-> "Deep", smell |-> "Foul"], <<"Ladder">>) }

\* generate_themed_dungeon(theme, num_rooms): its outcomes over every draw. The
\* exception of generate_dungeon leaves the call before notes is assigned.
DefaultNumRooms == 5
GenerateThemedDungeonDefaultCount(st, theme, num_rooms, now) ==
    { IF o.raised # "" THEN Raised(o.raised, <<"generate_themed_dungeon">> \o o.trace)
      ELSE Returned(Some([o.val[1] EXCEPT
                              !.notes = "This dungeon has a " \o theme \o " theme."]),
                    <<"generate_themed_dungeon">> \o o.trace)
      : o \in GenerateDungeon(st, DefaultNumRooms, Capitalize(theme) \o " Dungeon", now) }
GenerateThemedDungeon(st, theme, num_rooms, now) ==
    { IF o.raised # "" THEN Raised(o.raised, <<"generate_themed_dungeon">> \o o.trace)
      ELSE Returned(Some([o.val[1] EXCEPT
                              !.notes = "This dungeon has a " \o theme \o " theme."]),
                    <<"generate_themed_dungeon">> \o o.trace)
      : o \in GenerateDungeon(st, num_rooms, Capitalize(theme) \o " Dungeon", now) }

\* The position regenerate_room replaces: the first room whose id is room_id.
FirstWithId(rooms, room_id) == Min({i \in 1..Len(rooms) : rooms[i].id = Some(room_id)})

\* regenerate_room(dungeon, room_id): its outcomes over every draw; each carries
\* the dungeon it leaves.
RegenerateRoomEager(st, d, room_id) ==
    { IF g.raised # "" \/ GetRoom(d, room_id) = None
      THEN [raised |-> g.raised, val |-> None,
            trace |-> <<"regenerate_room">> \o g.trace \o <<"get_room">>, dungeon |-> d]
      ELSE LET new_room == [g.val[1] EXCEPT !.id = Some(room_id)]
           IN  [raised |-> "", val |-> Some(new_room),
                trace |-> <<"regenerate_room">> \o g.trace \o <<"get_room">>,
                dungeon |-> [d EXCEPT !.rooms[FirstWithId(d.rooms, room_id)] = new_room]]
      : g \in RoomOutcomes(st) }
RegenerateRoomMasked(st, d, room_id) ==
    LET room == GetRoom(d, room_id)
        t0 == <<"regenerate_room", "get_room">>
    IN  IF room = None
        THEN {[raised |-> "", val |-> None, trace |-> t0, dungeon |-> d]}
        ELSE { IF g.raised # ""
               THEN [raised |-> "", val |-> None, trace |-> t0 \o g.trace, dungeon |-> d]
               ELSE LET new_room == [g.val[1] EXCEPT !.id = Some(room_id)]
                    IN  [raised |-> "", val |-> Some(new_room), trace |-> t0 \o g.trace,
                         dungeon |-> [d EXCEPT !.rooms[FirstWithId(d.rooms, room_id)] = new_room]]
               : g \in RoomOutcomes(st) }
RegenerateRoomAppend(st, d, room_id) ==
    LET room == GetRoom(d, room_id)
        t0 == <<"regenerate_room", "get_room">>
    IN  IF room = None
        THEN {[raised |-> "", val |-> None, trace |-> t0, dungeon |-> d]}
        ELSE { IF g.raised # ""
               THEN [raised |-> g.raised, val |-> None, trace |-> t0 \o g.trace,
                     dungeon |-> d]
               ELSE LET new_room == [g.val[1] EXCEPT !.id = Some(room_id)]
                    IN  [raised |-> "", val |-> Some(new_room), trace |-> t0 \o g.trace,
                         dungeon |-> [d EXCEPT !.rooms = Append(@, new_room)]]
               : g \in RoomOutcomes(st) }
RegenerateRoom(st, d, room_id) ==
    LET room == GetRoom(d, room_id)
        t0 == <<"regenerate_room", "get_room">>
    IN  IF room = None
        THEN {[raised |-> "", val |-> None, trace |-> t0, dungeon |-> d]}
        ELSE { IF g.raised # ""
               THEN [raised |-> g.raised, val |-> None, trace |-> t0 \o g.trace,
                     dungeon |-> d]
               ELSE LET new_room == [g.val[1] EXCEPT !.id = Some(room_id)]
                    IN  [raised |-> "", val |-> Some(new_room), trace |-> t0 \o g.trace,
                         dungeon |-> [d EXCEPT !.rooms[FirstWithId(d.rooms, room_id)] = new_room]]
               : g \in RoomOutcomes(st) }

(***************************************************************************)
(* main-script.py                                                          *)
(***************************************************************************)
\* int(text) on the text of a decimal integer with an optional sign: None
\* stands for the ValueError int() raises on any other text.
Digits == "0123456789"
RECURSIVE ParseDigits(_, _)
ParseDigits(text, acc) ==
    IF text = "" THEN Some(acc)
    ELSE IF IndexIn(SubSeq(text, 1, 1), Digits) = 0 THEN None
    ELSE ParseDigits(SubSeq(text, 2, Len(text)),
                     10 * acc + IndexIn(SubSeq(text, 1, 1), Digits) - 1)
ParseInt(text) ==
    LET signed == text # "" /\ SubSeq(text, 1, 1) \in {"-", "+"}
        digits == IF signed THEN SubSeq(text, 2, Len(text)) ELSE text
        parsed == ParseDigits(digits, 0)
    IN  IF digits = "" \/ parsed = None THEN None
        ELSE IF signed /\ SubSeq(text, 1, 1) = "-" THEN Some(0 - parsed[1])
        ELSE parsed

\* The exception is a ValueError.
IsValueError(e) == Len(e) >= 10 /\ SubSeq(e, 1, 10) = "ValueError"

\* One turn of run_console's loop on the lines typed at its prompts, in
\* order, over every draw: the Dungeon generated if any, the calls made and the
\* lines printed, the dungeon file it leaves, and whether the loop ends. The
\* file name typed is left out: the model has one dungeon file.
RunConsoleAcceptsZero(st, f, typed, io, now) ==
    LET t0 == <<"run_console", "input">>
        Turn(v, tr, fl, q) == [raised |-> "", val |-> v, trace |-> tr, file |-> fl, quit |-> q]
    IN  IF Lower(typed[1]) = "q"
        THEN {Turn(None, t0 \o <<"print: Goodbye!">>, f, TRUE)}
        ELSE IF ParseInt(typed[1]) = None
        THEN {Turn(None, t0 \o <<"int", "print: Please enter a valid number.">>, f, FALSE)}
        ELSE IF ParseInt(typed[1])[1] < 0
        THEN {Turn(None, t0 \o <<"int", "print: Please enter a positive number.">>, f, FALSE)}
        ELSE { Turn(o.val, t0 \o <<"int">> \o o.trace, f, FALSE)
               : o \in GenerateDungeon(st, ParseInt(typed[1])[1], "Random Dungeon", now) }
RunConsole(st, f, typed, io, now) ==
    LET room_count == typed[1]
        dungeon_name == IF Len(typed) >= 2 THEN typed[2] ELSE ""
        save_option == IF Len(typed) >= 3 THEN typed[3] ELSE ""
        name == IF dungeon_name = "" THEN "Random Dungeon" ELSE dungeon_name
        t0 == <<"run_console", "input">>
        Turn(v, tr, fl, q) == [raised |-> "", val |-> v, trace |-> tr, file |-> fl, quit |-> q]
    IN  IF Lower(room_count) = "q"
        THEN {Turn(None, t0 \o <<"print: Goodbye!">>, f, TRUE)}
        ELSE IF ParseInt(room_count) = None
        THEN {Turn(None, t0 \o <<"int", "print: Please enter a valid number.">>, f, FALSE)}
        ELSE IF ParseInt(room_count)[1] <= 0
        THEN {Turn(None, t0 \o <<"int", "print: Please enter a positive number.">>, f, FALSE)}
        ELSE { LET t1 == t0 \o <<"int", "input">> \o o.trace
               IN  IF o.raised # ""
                   THEN Turn(None,
                             t1 \o << IF IsValueError(o.raised)
                                      THEN "print: Please enter a valid number."
                                      ELSE "print: An error occurred: " \o o.raised >>,
                             f, FALSE)
                   ELSE IF Lower(save_option) = "y"
                   THEN LET sv == Save(o.val[1], f, io)
                        IN  Turn(o.val,
                                 t1 \o <<"input", "input">> \o sv.trace \o
                                     << IF sv.val = Some(TRUE) THEN "print: Dungeon saved"
                                        ELSE "print: Failed to save dungeon" >>,
                                 sv.file, FALSE)
                   ELSE Turn(o.val, t1 \o <<"input">>, f, FALSE)
               : o \in GenerateDungeon(st, ParseInt(room_count)[1], name, now) }

\* The lines a turn read, the file name typed being left out.
LinesRead(tr) ==
    LET inputs == Cardinality({i \in 1..Len(tr) : tr[i] = "input"})
    IN  IF inputs > 3 THEN 3 ELSE inputs

(***************************************************************************)
(* Numenera - GitHub Edit/table-editor.py: TableEditorDialog. The window   *)
(* is a record: items, the data of the selector's items that name a table; *)
(* dividers, the number of its items without data; current, the data of    *)
(* the current item; current_table and current_table_name; rows, the       *)
(* texts of the table widget; description, the text of the description     *)
(* input; enabled, the state setEnabled gave to the table widget, the      *)
(* description input and the add, delete and save buttons; messages, the   *)
(* message boxes the handler running showed.                               *)
(***************************************************************************)
NoEditor == [open |-> FALSE]

\* str.strip() and str.replace(old, ""), on texts whose whitespace is " ".
RECURSIVE Strip(_)
Strip(s) ==
    IF s = "" THEN ""
    ELSE IF SubSeq(s, 1, 1) = " " THEN Strip(SubSeq(s, 2, Len(s)))
    ELSE IF SubSeq(s, Len(s), Len(s)) = " " THEN Strip(SubSeq(s, 1, Len(s) - 1))
    ELSE s
RECURSIVE Remove(_, _)
Remove(s, c) ==
    IF s = "" THEN ""
    ELSE (IF SubSeq(s, 1, 1) = c THEN "" ELSE SubSeq(s, 1, 1)) \o Remove(SubSeq(s, 2, Len(s)), c)
\* str.isalnum(), on ASCII text.
IsAlnum(s) ==
    /\ s # ""
    /\ \A i \in 1..Len(s) : IndexIn(SubSeq(s, i, i), LowerCase \o UpperCase \o Digits) # 0

\* list_available_tables(custom) on a scope: the stems of its *.json files.
ListAvailableTables(st) ==
    {SubSeq(n, 1, Len(n) - 5) : n \in {m \in DOMAIN st : EndsWith(m, ".json")}}

\* The Python value of an optional: None is None.
PyValue(opt) == IF opt = None THEN None ELSE opt[1]

\* A handler shows a message box.
Show(ed, message) == [ed EXCEPT !.messages = Append(@, message)]

\* clear_table()
ClearTable(ed) ==
    [ed EXCEPT !.rows = <<>>, !.description = "", !.current_table = None,
               !.current_table_name = ""]

\* load_table_data()
LoadTableData(ed) ==
    IF ~Truthy(ed.current_table) THEN ClearTable(ed)
    ELSE LET table_info == DictGet(ed.current_table[1], "table_info", <<>>)
             entries == DictGet(ed.current_table[1], "entries", <<>>)
         IN  [ed EXCEPT !.description = DictGet(table_info, "description", ""),
                        !.rows = [i \in 1..Len(entries) |->
                                    [name |-> DictGet(entries[i], "name", ""),
                                     min |-> ToString(DictGet(entries[i], "min", 0)),
                                     max |-> ToString(DictGet(entries[i], "max", 0))]]]

\* on_table_selected(index), data being the data of the item that became
\* current: None for a divider, Some([name, custom]) for a table.
OnTableSelectedAlwaysEditable(ed, st, custom_st, data) ==
    IF data = None THEN ClearTable([ed EXCEPT !.current = None])
    ELSE LET loaded == LoadTable(IF data[1].custom THEN custom_st ELSE st, data[1].name)
             selected == [ed EXCEPT !.current = data, !.current_table_name = data[1].name,
                                    !.current_table = loaded]
         IN  IF ~Truthy(loaded)
             THEN ClearTable(Show(selected, "Error: Failed to load table " \o data[1].name))
             ELSE [LoadTableData(selected) EXCEPT !.enabled = TRUE]
OnTableSelected(ed, st, custom_st, data) ==
    IF data = None THEN ClearTable([ed EXCEPT !.current = None])
    ELSE LET loaded == LoadTable(IF data[1].custom THEN custom_st ELSE st, data[1].name)
             selected == [ed EXCEPT !.current = data, !.current_table_name = data[1].name,
                                    !.current_table = loaded]
         IN  IF ~Truthy(loaded)
             THEN ClearTable(Show(selected, "Error: Failed to load table " \o data[1].name))
             ELSE [LoadTableData(selected) EXCEPT !.enabled = data[1].custom]

\* load_available_tables(): the selector is cleared and filled again, the list
\* of each scope being sorted; its first item, a divider, becomes current, and
\* the signal of that change runs on_table_selected without data.
LoadAvailableTables(ed, st, custom_st) ==
    OnTableSelected(
        [ed EXCEPT !.items = {[name |-> n, custom |-> FALSE] : n \in ListAvailableTables(st)}
                             \cup {[name |-> n, custom |-> TRUE] :
                                      n \in ListAvailableTables(custom_st)},
                   !.dividers = 1 + (IF ListAvailableTables(st) # {} THEN 1 ELSE 0)
                                  + (IF ListAvailableTables(custom_st) # {} THEN 1 ELSE 0)],
        st, custom_st, None)

\* TableEditorDialog.__init__: widgets are enabled when created.
NewEditor(st, custom_st) ==
    LoadAvailableTables(
        [open |-> TRUE, items |-> {}, dividers |-> 0, current |-> None,
         current_table |-> None, current_table_name |-> "", rows |-> <<>>,
         description |-> "", enabled |-> TRUE, messages |-> <<>>],
        st, custom_st)

\* add_row()
AddRow(ed) == [ed EXCEPT !.rows = Append(@, [name |-> "", min |-> "0", max |-> "0"])]

\* delete_row(), selected being the rows holding a selected cell.
DeleteRow(ed, selected) ==
    IF selected = {} THEN Show(ed, "Warning: No row selected")
    ELSE LET kept == {i \in 1..Len(ed.rows) : i \notin selected}
             Nth(k) == CHOOSE i \in kept : Cardinality({j \in kept : j < i}) = k - 1
         IN  [ed EXCEPT !.rows = [k \in 1..Cardinality(kept) |-> ed.rows[Nth(k)]]]

\* What a handler of the editor leaves: the window, the two scopes of the
\* table store, and the exception that left the handler if any.
Handled(ed, st, custom_st, raised) ==
    [editor |-> ed, store |-> st, custom_store |-> custom_st, raised |-> raised]

\* save_table(table_name, data, custom) of file_handler.py on the two scopes;
\* the editor leaves custom at its default, True.
SaveTableScopedToStandard(st, custom_st, table_name, data, custom, io) ==
    LET save == SaveTable(st, table_name, data, io)
    IN  [raised |-> save.raised, val |-> save.val, trace |-> save.trace,
         store |-> save.store, custom_store |-> custom_st]
SaveTableScoped(st, custom_st, table_name, data, custom, io) ==
    LET save == SaveTable(IF custom THEN custom_st ELSE st, table_name, data, io)
    IN  [raised |-> save.raised, val |-> save.val, trace |-> save.trace,
         store |-> IF custom THEN st ELSE save.store,
         custom_store |-> IF custom THEN save.store ELSE custom_st]

\* create_new_table(), text being the text of the new-table input and io what
\* the file system does on save_table.
CreateNewTable(ed, st, custom_st, text, io) ==
    LET table_name == Strip(text)
    IN  IF table_name = ""
        THEN Handled(Show(ed, "Warning: Please enter a table name"), st, custom_st, "")
        ELSE IF ~IsAlnum(Remove(table_name, "_"))
        THEN Handled(Show(ed, "Warning: Table name should contain only letters, numbers, and underscores"),
                     st, custom_st, "")
        ELSE LET created == [ed EXCEPT !.current_table_name = table_name,
                                       !.current_table = Some(Table(table_name, <<>>))]
                 cleared == AddRow([ClearTable(created) EXCEPT !.description = "",
                                                               !.enabled = TRUE])
                 save == SaveTableScoped(st, custom_st, table_name,
                                         PyValue(cleared.current_table), TRUE, io)
             IN  IF save.raised # ""
                 THEN Handled(cleared, save.store, save.custom_store, save.raised)
                 ELSE IF save.val = Some(TRUE)
                 THEN LET listed == LoadAvailableTables(
                                        Show(cleared, "Success: Created new table " \o table_name),
                                        save.store, save.custom_store)
                          data == [name |-> table_name, custom |-> TRUE]
                      IN  Handled(IF data \in listed.items
                                  THEN OnTableSelected(listed, save.store, save.custom_store,
                                                       Some(data))
                                  ELSE listed,
                                  save.store, save.custom_store, "")
                 ELSE Handled(Show(cleared, "Error: Failed to create table " \o table_name),
                              save.store, save.custom_store, "")

\* The entries save_table builds from the rows: a row with a blank name is
\* skipped, and a row whose min or max is no integer gets 0 for both.
RowEntries(ed) ==
    LET named == SelectSeq(ed.rows, LAMBDA row : Strip(row.name) # "")
    IN  [i \in 1..Len(named) |->
            IF ParseInt(named[i].min) = None \/ ParseInt(named[i].max) = None
            THEN Entry(named[i].name, 0, 0)
            ELSE Entry(named[i].name, ParseInt(named[i].min)[1], ParseInt(named[i].max)[1])]

\* save_table(), io being what the file system does on save_table.
EditorSaveTable(ed, st, custom_st, io) ==
    IF ed.current_table_name = ""
    THEN Handled(Show(ed, "Warning: No table selected"), st, custom_st, "")
    ELSE LET table_info == DictGet(ed.current_table[1], "table_info", <<>>)
             updated ==
                 [k \in DOMAIN ed.current_table[1] \cup {"table_info", "entries"} |->
                     IF k = "table_info"
                     THEN [f \in DOMAIN table_info \cup {"description"} |->
                              IF f = "description" THEN ed.description ELSE table_info[f]]
                     ELSE IF k = "entries" THEN RowEntries(ed)
                     ELSE ed.current_table[1][k]]
             warned == IF \E i \in 1..Len(ed.rows) :
                              /\ Strip(ed.rows[i].name) # ""
                              /\ (ParseInt(ed.rows[i].min) = None
                                  \/ ParseInt(ed.rows[i].max) = None)
                       THEN Show(ed, "Warning: Invalid chance values. Using 0.") ELSE ed
             kept == [warned EXCEPT !.current_table = Some(updated)]
             save == SaveTableScoped(st, custom_st, ed.current_table_name, updated, TRUE, io)
         IN  IF save.raised # "" THEN Handled(kept, save.store, save.custom_store, save.raised)
             ELSE IF save.val = Some(TRUE)
             THEN Handled(Show(kept, "Success: Saved table " \o ed.current_table_name),
                          save.store, save.custom_store, "")
             ELSE Handled(Show(kept, "Error: Failed to save table " \o ed.current_table_name),
                          save.store, save.custom_store, "")

(***************************************************************************)
(* Operations.                                                             *)
(***************************************************************************)
Quiet ==
    /\ heap = NoObjects
    /\ editor = NoEditor
    /\ store \in RoomStores \cup {StoreNoExtOnly}
    /\ custom_store = EmptyStore
    /\ file = None
    /\ saved = None
    /\ lastOp = "init"
    /\ rolled = <<>>
    /\ ret = None
    /\ err = ""
    /\ trace = <<>>

\* The caller records what a call did.
Observe(op, a, o) ==
    /\ lastOp' = op
    /\ arg' = a
    /\ ret' = o.val
    /\ err' = o.raised
    /\ trace' = o.trace

\* roll_on_table(table_entries), on the entry sequence the resolver was given.
RollOnTableOp ==
    \E r \in D100 :
        LET o == RollOnTable(arg.table_entries, r)
        IN  /\ Observe("roll_on_table", arg, o)
            /\ rolled' = IF Draws(o.trace) = 0 THEN <<>> ELSE <<r>>
            /\ UNCHANGED <<heap, editor, store, custom_store, dungeon, file, saved>>

\* roll_dice(num_dice, sides, modifier)
RollDiceOp ==
    \E num_dice \in -1..MaxDice, sides \in -1..MaxSides,
       modifier \in -MaxModifier..MaxModifier :
        \E o \in RollDice(num_dice, sides, modifier) :
            /\ Observe("roll_dice",
                       [num_dice |-> num_dice, sides |-> sides, modifier |-> modifier], o)
            /\ rolled' = o.rolls
            /\ UNCHANGED <<heap, editor, store, custom_store, dungeon, file, saved>>

\* roll_d20()
RollD20Op ==
    \E o \in RollD20 :
        /\ Observe("roll_d20", <<>>, o)
        /\ rolled' = o.val
        /\ UNCHANGED <<heap, editor, store, custom_store, dungeon, file, saved>>

\* roll_d100()
RollD100Op ==
    \E o \in RollD100 :
        /\ Observe("roll_d100", <<>>, o)
        /\ rolled' = o.val
        /\ UNCHANGED <<heap, editor, store, custom_store, dungeon, file, saved>>

\* RoomGenerator.generate_exits()
GenerateExitsOp ==
    \E r \in D100 :
        LET o == GenerateExits(store, r)
        IN  /\ Observe("generate_exits", <<>>, o)
            /\ rolled' = IF Draws(o.trace) = 0 THEN <<>> ELSE <<r>>
            /\ UNCHANGED <<heap, editor, store, custom_store, dungeon, file, saved>>

\* Room.description, read on the Room held in arg.
DescriptionOp ==
    /\ Observe("description", arg, Returned(Description(arg.room, arg.keys), <<"description">>))
    /\ rolled' = <<>>
    /\ UNCHANGED <<heap, editor, store, custom_store, dungeon, file, saved>>

\* What the caller sees of an editor handler: the message boxes shown and the
\* exception that left it.
ObserveEditor(op, a, h) ==
    /\ Observe(op, a, [raised |-> h.raised, val |-> h.editor.messages, trace |-> <<op>>])
    /\ editor' = h.editor
    /\ store' = h.store
    /\ custom_store' = h.custom_store
    /\ rolled' = <<>>
    /\ UNCHANGED <<heap, dungeon, file, saved>>
\* The window as a handler finds it: no message box is up.
Window == [editor EXCEPT !.messages = <<>>]

\* TableEditorDialog(): the window is opened.
OpenEditorOp ==
    /\ ~editor.open
    /\ ObserveEditor("open_editor", <<>>, Handled(NewEditor(store, custom_store), store, custom_store, ""))

\* The user makes another item of the selector current: on_table_selected.
OnTableSelectedOp ==
    /\ editor.open
    /\ \/ /\ editor.current # None \/ editor.dividers > 1
          /\ ObserveEditor("on_table_selected", [data |-> None],
                           Handled(OnTableSelected(Window, store, custom_store, None),
                                   store, custom_store, ""))
       \/ \E d \in editor.items :
             /\ editor.current # Some(d)
             /\ ObserveEditor("on_table_selected", [data |-> Some(d)],
                              Handled(OnTableSelected(Window, store, custom_store, Some(d)),
                                      store, custom_store, ""))

\* The Create button: create_new_table.
CreateNewTableOp ==
    /\ editor.open
    /\ \E text \in NewTableInputs, io \in EditorIo :
         /\ (Strip(text) # "" /\ IsAlnum(Remove(Strip(text), "_"))) \/ io = "ok"
         /\ ObserveEditor("create_new_table", [text |-> text, io |-> io],
                          CreateNewTable(Window, store, custom_store, text, io))

\* The Add Row button, which a disabled button does not take: add_row.
AddRowOp ==
    /\ editor.open /\ editor.enabled
    /\ Len(editor.rows) < MaxRows
    /\ ObserveEditor("add_row", <<>>, Handled(AddRow(Window), store, custom_store, ""))

\* The Delete Row button: delete_row on the rows selected.
DeleteRowOp ==
    /\ editor.open /\ editor.enabled
    /\ \E selected \in SUBSET (1..Len(editor.rows)) :
         ObserveEditor("delete_row", <<>>,
                       Handled(DeleteRow(Window, selected), store, custom_store, ""))

\* The Save Table button: save_table.
EditorSaveTableOp ==
    /\ editor.open /\ editor.enabled
    /\ \E io \in EditorIo :
         /\ editor.current_table_name # "" \/ io = "ok"
         /\ ObserveEditor("editor_save_table", [io |-> io],
                          EditorSaveTable(Window, store, custom_store, io))

\* The user types into a row of the table widget, or into the description
\* input, while they are enabled.
TypeRowOp ==
    /\ editor.open /\ editor.enabled
    /\ \E i \in 1..Len(editor.rows), row \in RowInputs :
         ObserveEditor("type_row", <<>>,
                       Handled([Window EXCEPT !.rows[i] = row], store, custom_store, ""))
TypeDescriptionOp ==
    /\ editor.open /\ editor.enabled
    /\ \E text \in DescriptionInputs :
         ObserveEditor("type_description", <<>>,
                       Handled([Window EXCEPT !.description = text], store, custom_store, ""))

\* RoomGenerator(use_custom_tables).generate_room(), on the draws held in arg.
GenerateRoomScopedOp ==
    LET o == GenerateRoomScoped(store, custom_store, arg.use_custom_tables, arg.draws)
    IN  /\ Observe("generate_room", arg, o)
        /\ rolled' = SubSeq(arg.draws.d100, 1, D100Draws(o.trace))
        /\ UNCHANGED <<heap, editor, store, custom_store, dungeon, file, saved>>

\* RoomGenerator.generate_room(), the caller keeping the Room returned.
HoldRoomOp ==
    /\ Len(heap.rooms) < MaxHeld
    /\ \E g \in RoomOutcomes(store) :
        /\ Observe("generate_room", <<>>, g)
        /\ heap' = IF g.raised # "" THEN heap
                   ELSE [heap EXCEPT !.rooms = Append(@, g.val[1])]
        /\ rolled' = <<>>
        /\ UNCHANGED <<editor, store, custom_store, dungeon, file, saved>>

\* Dungeon.add_room(room), for a Dungeon and a Room the caller holds.
AddHeldRoomOp ==
    \E d \in DOMAIN heap.dungeons, ref \in DOMAIN heap.rooms :
        /\ Len(heap.dungeons[d].rooms) < MaxRooms
        /\ Observe("add_room", [dungeon |-> d, room |-> ref],
                   Returned(Some(AddRoomRef(heap, d, ref).rooms[ref]), <<"add_room">>))
        /\ heap' = AddRoomRef(heap, d, ref)
        /\ rolled' = <<>>
        /\ UNCHANGED <<editor, store, custom_store, dungeon, file, saved>>

\* DungeonGenerator.regenerate_room(dungeon, room_id), for a Dungeon the
\* caller holds.
RegenerateHeldRoomOp ==
    \E d \in DOMAIN heap.dungeons, room_id \in 1..MaxRooms :
        IF GetRoomRef(heap, d, room_id) = 0
        THEN /\ Observe("regenerate_room", [dungeon |-> d, room_id |-> room_id],
                        Returned(None, <<"regenerate_room", "get_room">>))
             /\ rolled' = <<>>
             /\ UNCHANGED <<heap, editor, store, custom_store, dungeon, file, saved>>
        ELSE /\ Len(heap.rooms) < MaxHeld
             /\ \E g \in RoomOutcomes(store) :
                 /\ Observe("regenerate_room", [dungeon |-> d, room_id |-> room_id],
                            IF g.raised # ""
                            THEN Raised(g.raised, <<"regenerate_room", "get_room">> \o g.trace)
                            ELSE Returned(Some([g.val[1] EXCEPT !.id = Some(room_id)]),
                                          <<"regenerate_room", "get_room">> \o g.trace))
                 /\ heap' = IF g.raised # "" THEN heap
                            ELSE RegenerateRoomRef(heap, d, room_id, g.val[1])
                 /\ rolled' = <<>>
                 /\ UNCHANGED <<editor, store, custom_store, dungeon, file, saved>>

\* RoomGenerator.generate_creature()
GenerateCreatureOp ==
    \E d20 \in D20 :
        /\ Observe("generate_creature", <<>>, GenerateCreature(d20))
        /\ rolled' = <<d20>>
        /\ UNCHANGED <<heap, editor, store, custom_store, dungeon, file, saved>>

\* RoomGenerator.generate_corridor()
GenerateCorridorOp ==
    \E r \in D100 :
        LET o == GenerateCorridor(store, r)
        IN  /\ Observe("generate_corridor", <<>>, o)
            /\ rolled' = IF Draws(o.trace) = 0 THEN <<>> ELSE <<r>>
            /\ UNCHANGED <<heap, editor, store, custom_store, dungeon, file, saved>>

\* RoomGenerator.generate_chamber(), on the two values the random source gives
\* next, held in arg.draws.
GenerateChamberOp ==
    LET o == GenerateChamber(arg.draws[1], arg.draws[2])
    IN  /\ Observe("generate_chamber", arg, o)
        /\ rolled' = arg.draws
        /\ UNCHANGED <<heap, editor, store, custom_store, dungeon, file, saved>>

\* RoomGenerator.generate_room()
GenerateRoomOp ==
    \E o \in RoomOutcomes(store) :
        /\ Observe("generate_room", <<>>, o)
        /\ rolled' = <<>>
        /\ UNCHANGED <<heap, editor, store, custom_store, dungeon, file, saved>>

\* DungeonGenerator.generate_dungeon(num_rooms, name); the caller keeps the
\* Dungeon returned, and the one it had when the call raises.
GenerateDungeonOp ==
    \E num_rooms \in -1..MaxRooms, name \in Names, now \in Timestamps :
        \E o \in GenerateDungeon(store, num_rooms, name, now) :
            /\ Observe("generate_dungeon", [num_rooms |-> num_rooms, name |-> name], o)
            /\ dungeon' = IF o.raised = "" THEN o.val[1] ELSE dungeon
            /\ rolled' = <<>>
            /\ UNCHANGED <<heap, editor, store, custom_store, file, saved>>

\* room = generate_room(); dungeon.add_room(room), on the caller's Dungeon.
AddRoomOp ==
    /\ Len(dungeon.rooms) < MaxRooms
    /\ \E g \in RoomOutcomes(store) :
        /\ Observe("add_room", <<>>,
                   IF g.raised # "" THEN g
                   ELSE LET d == AddRoom(dungeon, g.val[1])
                        IN  Returned(Some(d.rooms[Len(d.rooms)]), g.trace \o <<"add_room">>))
        /\ dungeon' = IF g.raised # "" THEN dungeon ELSE AddRoom(dungeon, g.val[1])
        /\ rolled' = <<>>
        /\ UNCHANGED <<heap, editor, store, custom_store, file, saved>>

\* DungeonGenerator.regenerate_room(dungeon, room_id)
RegenerateRoomOp ==
    \E room_id \in 0..(MaxRooms + 1) :
        \E o \in RegenerateRoom(store, dungeon, room_id) :
            /\ Observe("regenerate_room", [room_id |-> room_id], o)
            /\ dungeon' = o.dungeon
            /\ rolled' = <<>>
            /\ UNCHANGED <<heap, editor, store, custom_store, file, saved>>

\* DungeonGenerator.generate_themed_dungeon(theme, num_rooms); the caller keeps
\* the Dungeon returned, and the one it had when the call raises.
GenerateThemedDungeonOp ==
    \E theme \in Themes, num_rooms \in -1..MaxRooms, now \in Timestamps :
        \E o \in GenerateThemedDungeon(store, theme, num_rooms, now) :
            /\ Observe("generate_themed_dungeon", [theme |-> theme, num_rooms |-> num_rooms], o)
            /\ dungeon' = IF o.raised = "" THEN o.val[1] ELSE dungeon
            /\ rolled' = <<>>
            /\ UNCHANGED <<heap, editor, store, custom_store, file, saved>>

\* dungeon.save(filename)
SaveOp ==
    \E io \in {"ok", "open fails", "write fails"} :
        LET o == Save(dungeon, file, io)
        IN  /\ Observe("save", [io |-> io], o)
            /\ file' = o.file
            /\ saved' = IF o.val = Some(TRUE) THEN Some(dungeon)
                        ELSE IF file' = file THEN saved ELSE None
            /\ rolled' = <<>>
            /\ UNCHANGED <<heap, editor, store, custom_store, dungeon>>

\* Dungeon.load(filename); the caller replaces its Dungeon by the one loaded,
\* and keeps it when load returns None.
LoadOp ==
    \E now \in Timestamps, io \in {"ok", "read fails"} :
        LET o == LoadIO(file, now, io)
        IN  /\ Observe("load", [io |-> io], o)
            /\ dungeon' = IF o.val = None THEN dungeon ELSE o.val[1]
            /\ rolled' = <<>>
            /\ UNCHANGED <<heap, editor, store, custom_store, file, saved>>

\* One turn of run_console's loop, which reads the lines typed and no more;
\* the Dungeon it generated is the one held.
RunConsoleOp ==
    \E typed \in ConsoleInputs :
        \E o \in UNION { RunConsole(store, file, typed, io, now) :
                            io \in {"ok", "open fails", "write fails"}, now \in Timestamps } :
            /\ LinesRead(o.trace) = Len(typed)
            /\ Observe("run_console", [typed |-> typed], o)
            /\ dungeon' = IF o.val = None THEN dungeon ELSE o.val[1]
            /\ file' = o.file
            /\ saved' = IF file' = file THEN saved
                        ELSE IF file'[1].parses THEN o.val ELSE None
            /\ rolled' = <<>>
            /\ UNCHANGED <<heap, editor, store, custom_store>>

\* save_table(table_name, data, custom)
SaveTableOp ==
    \E table_name \in TableNames, data \in TableData, custom \in BOOLEAN,
       io \in {"ok", "mkdir fails", "open fails", "write fails"} :
        LET o == SaveTable(IF custom THEN custom_store ELSE store, table_name, data, io)
        IN  /\ Observe("save_table",
                       [table_name |-> table_name, data |-> data, custom |-> custom,
                        io |-> io], o)
            /\ store' = IF custom THEN store ELSE o.store
            /\ custom_store' = IF custom THEN o.store ELSE custom_store
            /\ rolled' = <<>>
            /\ UNCHANGED <<heap, editor, dungeon, file, saved>>

\* load_table(table_name, custom)
LoadTableOp ==
    \E table_name \in LoadNames, custom \in BOOLEAN,
       io \in {"ok", "stat denied", "read fails"} :
        \E o \in LoadTableIO(IF custom THEN custom_store ELSE store, table_name, io) :
            /\ Observe("load_table",
                       [table_name |-> table_name, custom |-> custom, io |-> io], o)
            /\ rolled' = <<>>
            /\ UNCHANGED <<heap, editor, store, custom_store, dungeon, file, saved>>

NoDungeon == Dungeon("Random Dungeon", "2025-01-01T10:00:00")

\* The dungeon generator and the Dungeon record.
Init ==
    /\ Quiet
    /\ store \in DungeonStores
    /\ \E now \in Timestamps : dungeon = Dungeon("Random Dungeon", now)
    /\ arg = <<>>
Next == GenerateDungeonOp \/ AddRoomOp \/ RegenerateRoomOp \/ SaveOp \/ LoadOp
Spec == Init /\ [][Next]_vars

\* The dungeon generator's two ways of generating a Dungeon.
NextThemed == GenerateDungeonOp \/ GenerateThemedDungeonOp
SpecThemed == Init /\ [][NextThemed]_vars

\* The console front end and the generator it drives, on a store whose
\* main_features table is broken and on one that has none.
InitConsole ==
    /\ Quiet
    /\ store \in {StoreBroken, StoreNoMain}
    /\ dungeon = NoDungeon
    /\ arg = <<>>
NextConsole == RunConsoleOp \/ GenerateDungeonOp
SpecConsole == InitConsole /\ [][NextConsole]_vars

\* The room generator alone.
InitRoom == Quiet /\ dungeon = NoDungeon /\ arg = <<>>
NextRoom == GenerateRoomOp \/ GenerateExitsOp \/ GenerateCorridorOp \/ GenerateCreatureOp
SpecRoom == InitRoom /\ [][NextRoom]_vars

\* The table store and the dungeon file.
InitStore ==
    /\ Quiet
    /\ store = StoreNoExtOnly
    /\ dungeon = NoDungeon
    /\ arg = <<>>
NextStore == SaveTableOp \/ LoadTableOp \/ SaveOp \/ LoadOp
SpecStore == InitStore /\ [][NextStore]_vars

\* The Chamber generator alone, for every pair of d100 values.
InitChamber ==
    /\ Quiet
    /\ store = StoreSmall
    /\ dungeon = NoDungeon
    /\ \E r_size \in D100, r_shape \in D100 : arg = [draws |-> <<r_size, r_shape>>]
NextChamber == GenerateChamberOp
SpecChamber == InitChamber /\ [][NextChamber]_vars

\* Room.description alone, for every Room of DescribedRooms and every key order
\* of its details.
InitDescribe ==
    /\ Quiet
    /\ store = StoreRich
    /\ dungeon = NoDungeon
    /\ \/ \E room \in DescribedRooms :
            \E keys \in KeyOrders(DOMAIN room.details) : arg = [room |-> room, keys |-> keys]
       \/ arg = [room |-> Room(None, <<>>, <<>>), keys |-> <<>>]
NextDescribe == DescriptionOp
SpecDescribe == InitDescribe /\ [][NextDescribe]_vars

\* The room generator on the stores with a malformed optional table.
InitMalformed ==
    /\ heap = NoObjects
    /\ editor = NoEditor
    /\ store \in MalformedStores
    /\ custom_store = EmptyStore
    /\ dungeon = NoDungeon
    /\ file = None
    /\ saved = None
    /\ lastOp = "init"
    /\ arg = <<>>
    /\ rolled = <<>>
    /\ ret = None
    /\ err = ""
    /\ trace = <<>>
NextMalformed == GenerateRoomOp \/ GenerateExitsOp \/ GenerateCorridorOp
SpecMalformed == InitMalformed /\ [][NextMalformed]_vars

\* Rooms and Dungeons held by reference: one Room may be added again.
InitAlias ==
    /\ heap = TwoDungeons
    /\ editor = NoEditor
    /\ store = StoreSmall
    /\ custom_store = EmptyStore
    /\ dungeon = NoDungeon
    /\ file = None
    /\ saved = None
    /\ lastOp = "init"
    /\ arg = <<>>
    /\ rolled = <<>>
    /\ ret = None
    /\ err = ""
    /\ trace = <<>>
NextAlias == HoldRoomOp \/ AddHeldRoomOp \/ RegenerateHeldRoomOp
SpecAlias == InitAlias /\ [][NextAlias]_vars

\* The room generator over both scopes: RoomGenerator(use_custom_tables) is
\* constructed with either flag, over any custom scope.
InitScope ==
    /\ heap = NoObjects
    /\ editor = NoEditor
    /\ store \in {StoreRich, StoreSmall, StoreNoMain}
    /\ custom_store \in CustomStores
    /\ dungeon = NoDungeon
    /\ file = None
    /\ saved = None
    /\ lastOp = "init"
    /\ \E use_custom_tables \in BOOLEAN, draws \in DrawInputs :
         arg = [use_custom_tables |-> use_custom_tables, draws |-> draws]
    /\ rolled = <<>>
    /\ ret = None
    /\ err = ""
    /\ trace = <<>>
NextScope == GenerateRoomScopedOp
SpecScope == InitScope /\ [][NextScope]_vars

\* The table editor over both scopes of the table store.
InitEditor ==
    /\ heap = NoObjects
    /\ editor = NoEditor
    /\ store = StoreEditor
    /\ custom_store \in {EmptyStore, CustomT}
    /\ dungeon = NoDungeon
    /\ file = None
    /\ saved = None
    /\ lastOp = "init"
    /\ arg = <<>>
    /\ rolled = <<>>
    /\ ret = None
    /\ err = ""
    /\ trace = <<>>
NextEditor ==
    \/ OpenEditorOp \/ OnTableSelectedOp \/ CreateNewTableOp \/ AddRowOp \/ DeleteRowOp
    \/ EditorSaveTableOp \/ TypeRowOp \/ TypeDescriptionOp
SpecEditor == InitEditor /\ [][NextEditor]_vars

\* The dice alone.
InitDice == Quiet /\ store = StoreSmall /\ dungeon = NoDungeon /\ arg = <<>>
NextDice == RollDiceOp \/ RollD20Op \/ RollD100Op
SpecDice == InitDice /\ [][NextDice]_vars

\* The table resolver alone.
InitRoll ==
    /\ Quiet
    /\ store = StoreSmall
    /\ dungeon = NoDungeon
    /\ \E table_entries \in EntrySeqs : arg = [table_entries |-> table_entries]
NextRoll == RollOnTableOp
SpecRoll == InitRoll /\ [][NextRoll]_vars

(***************************************************************************)
(* Properties.                                                             *)
(***************************************************************************)
\* The positions of the calls named in S within a trace.
Calls(tr, S) == {i \in 1..Len(tr) : tr[i] \in S}

\* The entries of the sequence the resolver was given whose inclusive range
\* holds the roll drawn.
Hits == {i \in 1..Len(arg.table_entries) :
            /\ arg.table_entries[i].min <= rolled[1]
            /\ rolled[1] <= arg.table_entries[i].max}

\* C1: for a non-empty entry sequence and a d100 roll r, roll_on_table returns
\* the first entry, in declared order, with min <= r <= max: on overlapping
\* ranges the earlier entry wins, and both bounds are inclusive.
C1_FirstMatchInOrder ==
    (lastOp = "roll_on_table" /\ rolled # <<>> /\ Hits # {}) =>
        /\ err = ""
        /\ ret = Some(arg.table_entries[Min(Hits)])

\* A(1..50) declared before D(40..60): the roll 50 is in both and gives A.
C1_Witness ==
    /\ lastOp = "roll_on_table"
    /\ arg.table_entries = <<Entry("A", 1, 50), Entry("D", 40, 60)>>
    /\ rolled = <<50>>
    /\ ret = Some(Entry("A", 1, 50))

\* C2: for a non-empty entry sequence, a roll in no entry's range returns the
\* last entry and raises nothing; a non-empty sequence never resolves to None.
C2_FallbackToLast ==
    (lastOp = "roll_on_table" /\ Len(arg.table_entries) > 0) =>
        /\ err = ""
        /\ ret # None
        /\ rolled # <<>>
        /\ Hits = {} => ret = Some(arg.table_entries[Len(arg.table_entries)])

\* E(95..95) declared before A(1..50), and the roll 70, which neither holds:
\* the last entry, A, is returned.
C2_Witness ==
    /\ lastOp = "roll_on_table"
    /\ arg.table_entries = <<Entry("E", 95, 95), Entry("A", 1, 50)>>
    /\ rolled = <<70>>
    /\ ret = Some(Entry("A", 1, 50))

\* C3: roll_on_table on an empty entry sequence returns None without drawing a
\* roll; on a non-empty sequence it draws exactly one d100 value.
C3_DrawsOnlyWhenNonEmpty ==
    lastOp = "roll_on_table" =>
        /\ Len(arg.table_entries) = 0 =>
              (ret = None /\ err = "" /\ Draws(trace) = 0 /\ rolled = <<>>)
        /\ Len(arg.table_entries) > 0 =>
              (Draws(trace) = 1 /\ Len(rolled) = 1 /\ rolled[1] \in D100)

C3_Witness ==
    /\ lastOp = "roll_on_table"
    /\ arg.table_entries = <<>>
    /\ ret = None
    /\ Draws(trace) = 0

\* C4: for every positive room count n, a generate_dungeon(n, name) that
\* returns has invoked the room generator exactly n times, and returns a
\* Dungeon of that name whose rooms are exactly n, with ids 1..n in order.
C4_GenerateDungeonCount ==
    (lastOp = "generate_dungeon" /\ err = "" /\ arg.num_rooms > 0) =>
        /\ ret = Some(dungeon)
        /\ dungeon.name = arg.name
        /\ Len(dungeon.rooms) = arg.num_rooms
        /\ \A i \in 1..Len(dungeon.rooms) : dungeon.rooms[i].id = Some(i)
        /\ Cardinality(Calls(trace, {"generate_room"})) = arg.num_rooms
        /\ Cardinality(Calls(trace, {"add_room"})) = arg.num_rooms

C4_Witness ==
    /\ lastOp = "generate_dungeon"
    /\ err = ""
    /\ arg.num_rooms >= 2
    /\ Len(dungeon.rooms) = arg.num_rooms
    /\ dungeon.rooms[1].main_feature # dungeon.rooms[2].main_feature

\* C5: in every Dungeon reached from an empty one by add_room of a newly
\* generated room, regenerate_room, generate_dungeon, and save followed by
\* load, the room at position i has id i (so the ids are unique), and
\* get_room(i) is the room at position i for 1 <= i <= len(rooms), else None.
C5_IdsArePositions ==
    /\ \A i \in 1..Len(dungeon.rooms) : dungeon.rooms[i].id = Some(i)
    /\ \A i, j \in 1..Len(dungeon.rooms) :
          dungeon.rooms[i].id = dungeon.rooms[j].id => i = j
    /\ \A room_id \in -1..(MaxRooms + 2) :
          GetRoom(dungeon, room_id) =
              IF room_id \in 1..Len(dungeon.rooms) THEN Some(dungeon.rooms[room_id])
              ELSE None

\* A Dungeon of two rooms or more read back from the file.
C5_Witness ==
    /\ lastOp = "load"
    /\ ret = Some(dungeon)
    /\ Len(dungeon.rooms) >= 2

C7_RegenerateNotFound ==
    [][ ( /\ lastOp' = "regenerate_room"
          /\ \A i \in 1..Len(dungeon.rooms) : dungeon.rooms[i].id # Some(arg'.room_id) )
        =>
        /\ ret' = None
        /\ err' = ""
        /\ dungeon' = dungeon
        /\ Calls(trace', {"generate_room", "load_table(main_features)",
                          "load_table(corridor_details)", "load_table(exits)",
                          "roll_on_table"}) = {}
        /\ Draws(trace') = 0
      ]_vars

\* Id MaxRooms + 1 was asked of a Dungeon holding rooms.
C7_Witness ==
    /\ lastOp = "regenerate_room"
    /\ arg.room_id = MaxRooms + 1
    /\ Len(dungeon.rooms) >= 1
    /\ ret = None
    /\ err = ""

\* C8: loading the record a save wrote gives a Dungeon identical to the one
\* saved: name, created_at, notes, and the rooms in order with their id,
\* main_feature, details and exits; load generates no room and assigns no id.
C8_SaveLoadRoundTrip ==
    /\ (lastOp = "load" /\ ret # None) =>
          /\ saved # None
          /\ ret = saved
          /\ dungeon.name = saved[1].name
          /\ dungeon.created_at = saved[1].created_at
          /\ dungeon.notes = saved[1].notes
          /\ Len(dungeon.rooms) = Len(saved[1].rooms)
          /\ \A i \in 1..Len(dungeon.rooms) :
                /\ dungeon.rooms[i].id = saved[1].rooms[i].id
                /\ dungeon.rooms[i].main_feature = saved[1].rooms[i].main_feature
                /\ dungeon.rooms[i].details = saved[1].rooms[i].details
                /\ dungeon.rooms[i].exits = saved[1].rooms[i].exits
          /\ Calls(trace, {"generate_room", "add_room", "roll_on_table"}) = {}
    /\ (lastOp = "save" /\ ret = Some(TRUE)) =>
          \A now \in Timestamps : Load(file, now).val = Some(dungeon)

\* A generated Dungeon of two rooms or more read back from the file.
C8_Witness ==
    /\ lastOp = "load"
    /\ ret # None
    /\ ret = saved
    /\ Len(dungeon.rooms) >= 2
    /\ dungeon.name = "Test"

\* The keywords of generate_exits in their order, and the list each stands for.
ExitKeywords ==
    << "No additional exits", "1 additional exit", "2 additional exits",
       "sealed exit", "trapped exit", "hidden exit" >>
ExitLists ==
    << <<"Main entrance">>, <<"Main entrance", "Side passage">>,
       <<"Main entrance", "Side passage", "Back door">>,
       <<"Main entrance", "Sealed door">>, <<"Main entrance", "Trapped door">>,
       <<"Main entrance", "Hidden passage">> >>
\* The name of the exits-table entry the last generate_exits resolved.
ResolvedExitName ==
    RollOnTable(LoadTable(store, "exits")[1].entries, rolled[1]).val[1].name

\* C9: for every resolved exits-table entry name, generate_exits returns the
\* list of the first keyword, in the order of ExitKeywords, that the name
\* contains as a case-sensitive substring, and [Main entrance] when it
\* contains none.
C9_ExitKeywordOrder ==
    (lastOp = "generate_exits" /\ rolled # <<>> /\ err = "") =>
        LET hits == {i \in 1..Len(ExitKeywords) : Contains(ResolvedExitName, ExitKeywords[i])}
        IN  ret = Some(IF hits = {} THEN <<"Main entrance">> ELSE ExitLists[Min(hits)])

\* A name with "sealed exit" before "2 additional exits": the latter decides.
C9_Witness ==
    /\ lastOp = "generate_exits"
    /\ rolled # <<>>
    /\ ResolvedExitName = "A sealed exit, 2 additional exits"
    /\ ret = Some(<<"Main entrance", "Side passage", "Back door">>)

\* C10: generate_room raises, and returns no Room, whenever the main_features
\* table cannot be loaded or has zero entries; no feature-detail generator and
\* no exits generation is run then.
C10_MainFeaturesMandatory ==
    ( /\ lastOp = "generate_room"
      /\ \/ LoadTable(store, "main_features") = None
         \/ Len(LoadTable(store, "main_features")[1].entries) = 0 )
    =>
    /\ err # ""
    /\ ret = None
    /\ Calls(trace, {"generate_corridor", "generate_chamber", "generate_creature",
                     "generate_placeholder", "generate_exits", "load_table(exits)"}) = {}

\* A main_features table with zero entries, and an exits table present.
C10_Witness ==
    /\ lastOp = "generate_room"
    /\ LoadTable(store, "main_features") # None
    /\ LoadTable(store, "main_features")[1].entries = <<>>
    /\ LoadTable(store, "exits") # None
    /\ err = "ValueError: Failed to roll on main_features table"

\* C11: when one generate_room call of generate_dungeon raises, the whole call
\* fails with that error and returns no Dungeon, not even one holding the rooms
\* generated before the failure; the loop stops at the failing call.
C11_GenerateDungeonAllOrNothing ==
    lastOp = "generate_dungeon" =>
        LET generated == Cardinality(Calls(trace, {"generate_room"}))
            added == Cardinality(Calls(trace, {"add_room"}))
        IN  /\ generated > added =>
                  /\ err # ""
                  /\ err \in {g.raised : g \in RoomOutcomes(store)}
                  /\ ret = None
                  /\ generated = added + 1
                  /\ trace[Len(trace)] # "add_room"
            /\ err # "" => (ret = None /\ generated > added)

\* The first room was generated and added, the second generate_room raised.
C11_Witness ==
    /\ lastOp = "generate_dungeon"
    /\ arg.num_rooms = 2
    /\ Cardinality(Calls(trace, {"add_room"})) = 1
    /\ Cardinality(Calls(trace, {"generate_room"})) = 2
    /\ err = "KeyError"
    /\ ret = None

\* The calls generate_room makes once main_features has resolved to an entry.
AfterDispatch ==
    {"generate_corridor", "generate_chamber", "generate_creature", "generate_placeholder",
     "generate_exits", "load_table(corridor_details)", "load_table(exits)"}
\* A table that load_table cannot give, or one whose entries all carry name,
\* min and max (a table of zero entries among them).
Sound(st, table_name) ==
    \/ ~Truthy(LoadTable(st, table_name))
    \/ /\ "entries" \in DOMAIN LoadTable(st, table_name)[1]
       /\ \A i \in 1..Len(LoadTable(st, table_name)[1].entries) :
             {"name", "min", "max"} \subseteq DOMAIN LoadTable(st, table_name)[1].entries[i]
\* A table that is missing, unreadable, or has zero entries.
MissingOrEmpty(st, table_name) ==
    \/ ~Truthy(LoadTable(st, table_name))
    \/ LoadTable(st, table_name)[1].entries = <<>>
\* Every roll resolves main_features to a named entry.
MainFeaturesResolves(st) ==
    /\ Truthy(LoadTable(st, "main_features"))
    /\ \A r \in D100 :
          LET e == RollOnTable(LoadTable(st, "main_features")[1].entries, r)
          IN  e.raised = "" /\ Truthy(e.val) /\ "name" \in DOMAIN e.val[1]

\* C12: once main_features has resolved to an entry, generate_room returns a
\* Room and raises nothing, whichever of corridor_details and exits are missing
\* or have zero entries, the ones present being well-formed: an exception
\* leaves generate_room only before the dispatch. A Corridor whose
\* corridor_details table is missing or empty has details exactly
\* {description: "Simple corridor"}.
C12_OptionalTablesAreSoft ==
    (lastOp = "generate_room" /\ Sound(store, "corridor_details") /\ Sound(store, "exits")) =>
        /\ err # "" => Calls(trace, AfterDispatch) = {}
        /\ Calls(trace, AfterDispatch) # {} => (err = "" /\ ret # None)
        /\ MainFeaturesResolves(store) => (err = "" /\ ret # None)
        /\ ( /\ ret # None
             /\ ret[1].main_feature = "Corridor"
             /\ MissingOrEmpty(store, "corridor_details") )
           => ret[1].details = [description |-> "Simple corridor"]

\* A Corridor generated with a corridor_details table of zero entries and no
\* exits table.
C12_Witness ==
    /\ lastOp = "generate_room"
    /\ LoadTable(store, "corridor_details") # None
    /\ LoadTable(store, "corridor_details")[1].entries = <<>>
    /\ LoadTable(store, "exits") = None
    /\ ret = Some(Room("Corridor", [description |-> "Simple corridor"], <<"1 exit">>))

\* C13 as stated: when the exits table cannot be loaded, or resolving it yields
\* no entry, generate_exits returns exactly [Main entrance].
C13_DefaultIsMainEntrance ==
    (lastOp = "generate_exits" /\ MissingOrEmpty(store, "exits")) =>
        ret = Some(<<"Main entrance">>)

\* C13, amended: when the exits table cannot be loaded, or resolving it yields
\* no entry, generate_exits raises nothing and returns exactly [1 exit], a
\* one-element list that names no exit; the roll is drawn only when the table
\* loaded.
C13_DefaultIsOneExit ==
    (lastOp = "generate_exits" /\ MissingOrEmpty(store, "exits")) =>
        /\ err = ""
        /\ ret = Some(<<"1 exit">>)
        /\ rolled = <<>>
        /\ Calls(trace, {"roll_on_table"}) # {} <=> LoadTable(store, "exits") # None

\* generate_exits on an exits table that loads and has zero entries.
C13_Witness ==
    /\ lastOp = "generate_exits"
    /\ LoadTable(store, "exits") # None
    /\ LoadTable(store, "exits")[1].entries = <<>>
    /\ ret = Some(<<"1 exit">>)

\* The 15 names registered by RoomGenerator.__init__.
RegisteredNames ==
    { "Corridor", "Chamber", "Creature", "Explorers", "Interstitial cavity", "Accessway",
      "Rupture", "Shaft", "Abhuman Colony", "Integrated Machine", "Matter leak",
      "Energy discharge", "Weird event", "Vault", "Relic Chamber" }
\* The calls that are feature generators.
GeneratorCalls ==
    {"generate_corridor", "generate_chamber", "generate_creature", "generate_placeholder"}
\* The call the generator registered for a name shows as.
GeneratorCallOf(main_feature) ==
    IF main_feature = "Corridor" THEN "generate_corridor"
    ELSE IF main_feature = "Chamber" THEN "generate_chamber"
    ELSE IF main_feature = "Creature" THEN "generate_creature"
    ELSE "generate_placeholder"

\* C14: generate_room dispatches on the resolved main_feature name. For one of
\* the 15 registered names the details are what that name's generator returns,
\* and that generator ran once; for any other name no generator ran and the
\* details are exactly {description: "Empty room"}. In both cases the room's
\* main_feature is the name of an entry the main_features table resolves to.
C14_DispatchOnMainFeature ==
    (lastOp = "generate_room" /\ ret # None) =>
        LET room == ret[1]
            entries == LoadTable(store, "main_features")[1].entries
        IN  /\ Cardinality(RegisteredNames) = 15
            /\ \E r \in D100 :
                  /\ RollOnTable(entries, r).raised = ""
                  /\ RollOnTable(entries, r).val = Some(entries[Min({i \in 1..Len(entries) :
                                                     entries[i].name = room.main_feature})])
            /\ IF room.main_feature \in RegisteredNames
               THEN /\ \E g \in FeatureOutcomes(store, room.main_feature) :
                          g.raised = "" /\ g.val = Some(room.details)
                    /\ \A i \in Calls(trace, GeneratorCalls) :
                          trace[i] = GeneratorCallOf(room.main_feature)
                    /\ Cardinality(Calls(trace, GeneratorCalls)) = 1
               ELSE /\ room.details = [description |-> "Empty room"]
                    /\ Calls(trace, GeneratorCalls) = {}

\* An entry named "corridor", which no registered name equals: the room keeps
\* the name and gets the Empty room details.
C14_Witness ==
    /\ lastOp = "generate_room"
    /\ ret # None
    /\ ret[1].main_feature = "corridor"
    /\ ret[1].details = [description |-> "Empty room"]
    /\ LoadTable(store, "corridor_details") # None

\* What generate_dungeon and generate_themed_dungeon leave of a call besides
\* the name and the notes: the exception, the rooms, and the calls made from
\* generate_dungeon on.
RoomsOf(o, skip) ==
    [ raised |-> o.raised,
      rooms |-> IF o.val = None THEN None ELSE Some(o.val[1].rooms),
      created_at |-> IF o.val = None THEN None ELSE Some(o.val[1].created_at),
      trace |-> SubSeq(o.trace, skip + 1, Len(o.trace)) ]

\* C15: generate_themed_dungeon(theme, n) is cosmetic. On the same store and
\* the same draws it makes the calls generate_dungeon(n) makes and gives the
\* same rooms (ids, main_feature, details, exits) or the same exception,
\* whatever the theme; the name is the capitalized theme followed by
\* " Dungeon" and the notes are "This dungeon has a <theme> theme.".
C15_ThemeIsCosmetic ==
    /\ lastOp = "generate_themed_dungeon" =>
          LET n == arg.num_rooms
              here == [raised |-> err, val |-> ret, trace |-> trace]
          IN  /\ \A now \in Timestamps :
                    {RoomsOf(o, 1) : o \in GenerateThemedDungeon(store, arg.theme, n, now)}
                        = {RoomsOf(o, 0) : o \in GenerateDungeon(store, n, "Random Dungeon", now)}
              /\ \A theme \in Themes, now \in Timestamps :
                    {RoomsOf(o, 1) : o \in GenerateThemedDungeon(store, theme, n, now)}
                        = {RoomsOf(o, 1) : o \in GenerateThemedDungeon(store, arg.theme, n, now)}
              /\ \E now \in Timestamps :
                    \E o \in GenerateDungeon(store, n, "Random Dungeon", now) :
                        RoomsOf(o, 0) = RoomsOf(here, 1)
              /\ err = "" =>
                    /\ ret = Some(dungeon)
                    /\ dungeon.name = Capitalize(arg.theme) \o " Dungeon"
                    /\ dungeon.notes = "This dungeon has a " \o arg.theme \o " theme."
                    /\ Len(dungeon.rooms) = IF n > 0 THEN n ELSE 0
    /\ (lastOp = "generate_dungeon" /\ err = "") =>
          (dungeon.name = arg.name /\ dungeon.notes = "")

\* A themed Dungeon of two different rooms; capitalize() has put the first
\* letter of the theme in upper case and the others in lower case.
C15_Witness ==
    /\ lastOp = "generate_themed_dungeon"
    /\ arg.theme = "ice CAVE"
    /\ err = ""
    /\ dungeon.name = "Ice cave Dungeon"
    /\ dungeon.notes = "This dungeon has a ice CAVE theme."
    /\ Len(dungeon.rooms) = 2
    /\ dungeon.rooms[1].main_feature # dungeon.rooms[2].main_feature

\* C16: roll_dice(count, sides, modifier) returns modifier unchanged, raising
\* nothing and drawing nothing, when count <= 0 or sides <= 0; otherwise it
\* draws exactly count values, each in [1, sides], and returns their sum plus
\* modifier, which lies in [count + modifier, count * sides + modifier].
\* roll_d20 returns a value in [1, 20] and roll_d100 a value in [1, 100].
C16_RollDiceRange ==
    /\ lastOp = "roll_dice" =>
          LET count == arg.num_dice
              sides == arg.sides
              modifier == arg.modifier
          IN  /\ err = ""
              /\ ret # None
              /\ IF count <= 0 \/ sides <= 0
                 THEN /\ ret = Some(modifier)
                      /\ rolled = <<>>
                      /\ Calls(trace, {"randint"}) = {}
                 ELSE /\ Len(rolled) = count
                      /\ Cardinality(Calls(trace, {"randint"})) = count
                      /\ \A i \in 1..count : 1 <= rolled[i] /\ rolled[i] <= sides
                      /\ ret[1] = Sum(rolled) + modifier
                      /\ count + modifier <= ret[1]
                      /\ ret[1] <= count * sides + modifier
    /\ lastOp = "roll_d20" => (err = "" /\ ret # None /\ 1 <= ret[1] /\ ret[1] <= 20)
    /\ lastOp = "roll_d100" => (err = "" /\ ret # None /\ 1 <= ret[1] /\ ret[1] <= 100)

\* No dice and a modifier that is not zero: the modifier comes back.
C16_Witness ==
    /\ lastOp = "roll_dice"
    /\ arg.num_dice = 0
    /\ arg.sides = MaxSides
    /\ arg.modifier = -MaxModifier
    /\ ret = Some(-MaxModifier)
    /\ rolled = <<>>

\* The scope the last save_table or load_table worked on.
Scope == IF arg.custom THEN custom_store ELSE store

\* C17: after save_table(name, table, scope) returns True, load_table(name,
\* scope) returns a table equal to the one saved, the latest save under the
\* name being the one read; and load_table of a name that exists neither as
\* "<name>.json" nor as "<name>" in the scope returns None without raising.
C17_SaveTableThenLoadTable ==
    /\ (lastOp = "save_table" /\ err = "" /\ ret = Some(TRUE)) =>
          \A o \in LoadTableIO(Scope, arg.table_name, "ok") :
              o.raised = "" /\ o.val = Some(arg.data)
    /\ ( /\ lastOp = "load_table"
         /\ arg.io = "ok"
         /\ (arg.table_name \o ".json") \notin DOMAIN Scope
         /\ arg.table_name \notin DOMAIN Scope )
       => (err = "" /\ ret = None)

\* C18: an I/O failure while saving or loading a dungeon or a table is never
\* raised to the caller: Dungeon.save and save_table return False, Dungeon.load
\* and load_table return None, the file is opened at most once (no retry), and
\* the Dungeon being saved is left unchanged.
C18_IoFailureNeverRaised ==
    [][ /\ (lastOp' \in {"save", "save_table"} /\ arg'.io # "ok") =>
              (err' = "" /\ ret' = Some(FALSE))
        /\ (lastOp' \in {"load", "load_table"} /\ arg'.io # "ok") =>
              (err' = "" /\ ret' = None)
        /\ lastOp' \in {"save", "save_table", "load", "load_table"} =>
              Cardinality(Calls(trace', {"open"})) <= 1
        /\ lastOp' = "save" => dungeon' = dungeon
      ]_vars

\* A room of the dungeon has the id.
HasRoom(d, room_id) == \E i \in 1..Len(d.rooms) : d.rooms[i].id = Some(room_id)

NonPositiveInputs == {"0", "-1"}

\* C20 as stated: a non-positive room count is rejected before any generation
\* attempt, by run_console and by generate_dungeon alike: no room generator
\* call is made, no Dungeon is produced, and a reason is reported.
C20_NonPositiveRejected ==
    /\ (lastOp = "run_console" /\ arg.typed[1] \in NonPositiveInputs) =>
          /\ Calls(trace, {"generate_room"}) = {}
          /\ ret = None
          /\ Calls(trace, {"print: Please enter a positive number."}) # {}
    /\ (lastOp = "generate_dungeon" /\ arg.num_rooms <= 0) =>
          /\ Calls(trace, {"generate_room"}) = {}
          /\ ret = None
          /\ err # ""

\* C20, amended: run_console rejects a non-positive room count before any
\* generation attempt: generate_dungeon is not called, no room is generated,
\* no Dungeon is produced, nothing is saved, and "Please enter a positive
\* number." is printed. generate_dungeon itself rejects nothing: for a
\* non-positive count it makes no room generator call, raises nothing, and
\* returns a Dungeon of the name given with no rooms.
C20_ConsoleRejectsNonPositive ==
    /\ (lastOp = "run_console" /\ arg.typed[1] \in NonPositiveInputs) =>
          /\ Calls(trace, {"generate_dungeon", "generate_room", "add_room", "save"}) = {}
          /\ ret = None
          /\ err = ""
          /\ trace[Len(trace)] = "print: Please enter a positive number."
    /\ (lastOp = "run_console" /\ ret # None) =>
          /\ ParseInt(arg.typed[1]) # None
          /\ ParseInt(arg.typed[1])[1] > 0
          /\ Len(ret[1].rooms) = ParseInt(arg.typed[1])[1]
    /\ (lastOp = "generate_dungeon" /\ arg.num_rooms <= 0) =>
          /\ Calls(trace, {"generate_room", "add_room"}) = {}
          /\ err = ""
          /\ ret = Some(dungeon)
          /\ dungeon.name = arg.name
          /\ dungeon.rooms = <<>>

\* "0" was typed at the prompt of a console that had generated a Dungeon.
C20_Witness ==
    /\ lastOp = "run_console"
    /\ arg.typed = <<"0">>
    /\ Len(dungeon.rooms) >= 1
    /\ ret = None
    /\ trace = <<"run_console", "input", "int", "print: Please enter a positive number.">>

\* The entries of an inline table whose inclusive range holds the roll.
InRange(table, r) == {i \in 1..Len(table) : table[i].min <= r /\ r <= table[i].max}

\* C21: the two inline Chamber tables, of 6 entries each, partition 1..20
\* with no gap and no overlap, and cover every value the resolver draws when
\* generate_chamber rolls on them: each size and each shape is selected
\* exactly when the roll is in its range, and the fallback to the last entry
\* is never taken for a Chamber.
C21_ChamberTablesCoverRolls ==
    /\ Len(size_table) = 6 /\ Len(shape_table) = 6
    /\ \A r \in 1..20 :
          Cardinality(InRange(size_table, r)) = 1 /\ Cardinality(InRange(shape_table, r)) = 1
    /\ lastOp = "generate_chamber" =>
          /\ Len(rolled) = 2
          /\ InRange(size_table, rolled[1]) # {}
          /\ InRange(shape_table, rolled[2]) # {}
          /\ \A i \in 1..6 :
                /\ ret[1].size = size_table[i].name <=> i \in InRange(size_table, rolled[1])
                /\ ret[1].shape = shape_table[i].name <=> i \in InRange(shape_table, rolled[2])

\* The entries of a loaded corridor_details table that carry a true roll_again.
RollAgain(entries) ==
    {i \in 1..Len(entries) : "roll_again" \in DOMAIN entries[i] /\ entries[i].roll_again}

\* C22: a corridor_details entry flagged roll_again is only annotated.
\* generate_corridor returns the entry's name as description plus a note key,
\* and an entry without the flag, or with the flag false, gives no note key;
\* the room's main_feature stays Corridor and generate_room loads and resolves
\* main_features once per room, running the corridor generator once.
C22_RollAgainOnlyAnnotates ==
    /\ (lastOp = "generate_corridor" /\ err = "" /\ rolled # <<>>) =>
          LET entries == LoadTable(store, "corridor_details")[1].entries
              hit == InRange(entries, rolled[1])
          IN  hit # {} =>
                LET e == entries[Min(hit)]
                IN  /\ ret[1].description = e.name
                    /\ Min(hit) \in RollAgain(entries) =>
                          ret[1] = [description |-> e.name,
                                    note |-> "Roll again on the main feature table"]
                    /\ Min(hit) \notin RollAgain(entries) => DOMAIN ret[1] = {"description"}
    /\ (lastOp = "generate_room" /\ ret # None /\ "note" \in DOMAIN ret[1].details) =>
          /\ ret[1].main_feature = "Corridor"
          /\ \E i \in RollAgain(LoadTable(store, "corridor_details")[1].entries) :
                ret[1].details.description =
                    LoadTable(store, "corridor_details")[1].entries[i].name
          /\ Cardinality(Calls(trace, {"load_table(main_features)"})) = 1
          /\ Cardinality(Calls(trace, GeneratorCalls)) = 1
          /\ trace[3] = "roll_on_table" /\ trace[5] = "generate_corridor"
          /\ Cardinality(Calls(trace, {"roll_on_table"})) <= 3
C22_Witness ==
    /\ lastOp = "generate_room"
    /\ ret # None
    /\ ret[1].main_feature = "Corridor"
    /\ ret[1].details = [description |-> "Dead end",
                          note |-> "Roll again on the main feature table"]
\* The unflagged case of C22: a flag present but false leaves no note.
C22_WitnessFalseFlag ==
    /\ lastOp = "generate_corridor"
    /\ rolled = <<60>>
    /\ ret = Some([description |-> "Sloping corridor"])

\* 1 for a section that is rendered, 0 for one that is not.
Line(present) == IF present THEN 1 ELSE 0

\* C23: Room.description renders the header line of the main feature first,
\* then the description detail if present, then for a Chamber the size and then
\* the shape, then every other detail key exactly once and none of description,
\* size, shape again, and last the exits line with all exits in order, or
\* No exits for an empty list; a room without main_feature renders as exactly
\* Empty room.
C23_DescriptionSectionOrder ==
    lastOp = "description" =>
        LET room == arg.room
            d == room.details
            hasDesc == "description" \in DOMAIN d
            hasSize == room.main_feature = "Chamber" /\ "size" \in DOMAIN d
            hasShape == room.main_feature = "Chamber" /\ "shape" \in DOMAIN d
            rest == DOMAIN d \ {"description", "size", "shape"}
            n == 1 + Line(hasDesc) + Line(hasSize) + Line(hasShape)
        IN  IF Len(room.main_feature) = 0 THEN ret = <<"Empty room">>
            ELSE /\ Len(ret) = n + Cardinality(rest) + 1
                 /\ ret[1] = room.main_feature \o ":"
                 /\ hasDesc => ret[2] = d.description
                 /\ hasSize => ret[2 + Line(hasDesc)] = "Size: " \o d.size
                 /\ hasShape => ret[n] = "Shape: " \o d.shape
                 /\ \A k \in rest :
                       Cardinality({i \in (n + 1)..(n + Cardinality(rest)) :
                                      ret[i] = Capitalize(k) \o ": " \o d[k]}) = 1
                 /\ ret[Len(ret)] = IF room.exits = <<>> THEN "No exits"
                                    ELSE "Exits: " \o Join(room.exits, ", ")
C23_Witness ==
    /\ lastOp = "description"
    /\ arg.room.main_feature = "Chamber"
    /\ Len(arg.room.exits) = 3
    /\ ret[1] = "Chamber:"
    /\ ret[2] = "Size: Closet-sized"
    /\ ret[3] = "Shape: Circle"
    /\ ret[4] = "Features: Various furnishings and decorations"
\* The other cases of C23: no main_feature, and no exits.
C23_WitnessEmpty ==
    /\ lastOp = "description"
    /\ Len(arg.room.main_feature) = 0
    /\ arg.keys = <<>>
    /\ ret = <<"Empty room">>
C23_WitnessNoExits ==
    /\ lastOp = "description"
    /\ ret = <<"Vault:", "A vault", "Loot: Cypher", "No exits">>

\* The feature-detail and exits tables of the store that are present and
\* malformed: unparseable, without entries, or with an entry lacking a key.
Malformed(st, table_name) ==
    /\ (table_name \o ".json") \in DOMAIN st \/ table_name \in DOMAIN st
    /\ \/ ~Truthy(LoadTable(st, table_name))
       \/ ~Sound(st, table_name)

\* C24: a corridor_details or exits table file that is present but malformed
\* (unparseable, without an entries sequence, or with an entry lacking name,
\* min or max) never makes generate_room raise: the Corridor gets the default
\* details, the room the default exits, and a Room is returned.
C24_MalformedTablesAreSoft ==
    (lastOp = "generate_room" /\ MainFeaturesResolves(store)) =>
        /\ err = ""
        /\ ret # None
        /\ (Malformed(store, "corridor_details") /\ ret[1].main_feature = "Corridor")
              => ret[1].details = [description |-> "Simple corridor"]
        /\ Malformed(store, "exits") => ret[1].exits = <<"1 exit">>

\* C25: a Room's id is None when generate_room returns it and is written once
\* afterwards, by add_room, or by regenerate_room for the replacement room;
\* once assigned no later operation changes it, adding the same Room again to
\* the same or another Dungeon included.
C25_IdWrittenOnce ==
    [][ /\ \A ref \in DOMAIN heap.rooms :
              /\ heap.rooms[ref].id # None => heap'.rooms[ref].id = heap.rooms[ref].id
              /\ heap'.rooms[ref].id # heap.rooms[ref].id => lastOp' = "add_room"
        /\ \A ref \in DOMAIN heap'.rooms \ DOMAIN heap.rooms :
              IF lastOp' = "generate_room" THEN heap'.rooms[ref].id = None
              ELSE lastOp' = "regenerate_room" /\ heap'.rooms[ref].id = Some(arg'.room_id)
      ]_vars

CreatureType(level) == "Level " \o ToString(level) \o " hostile entity"

\* C27: for every d20 roll in 1..20 the level generate_creature writes into
\* creature_type, the roll mod 10 plus 1, is an integer in 1..10; each level in
\* 1..10 comes from exactly two of the twenty rolls; the details returned have
\* exactly the keys description and creature_type.
C27_CreatureLevelRange ==
    /\ lastOp = "generate_creature" =>
          /\ err = ""
          /\ rolled[1] \in 1..20
          /\ DOMAIN ret[1] = {"description", "creature_type"}
          /\ \E level \in 1..10 : ret[1].creature_type = CreatureType(level)
          /\ ret[1].creature_type = CreatureType((rolled[1] % 10) + 1)
    /\ \A level \in 1..10 :
          Cardinality({d20 \in D20 :
                         GenerateCreature(d20).val[1].creature_type = CreatureType(level)}) = 2
\* The roll of 20, which wraps to level 1.
C27_Witness ==
    /\ lastOp = "generate_creature"
    /\ rolled = <<20>>
    /\ ret[1].creature_type = "Level 1 hostile entity"

\* The name has a character, and only letters, digits and underscores.
ValidTableName(name) ==
    /\ name # ""
    /\ \A i \in 1..Len(name) :
          IndexIn(SubSeq(name, i, i), LowerCase \o UpperCase \o Digits \o "_") # 0
\* The handler showed its success message.
Succeeded(messages) == \E i \in 1..Len(messages) : SubSeq(messages[i], 1, 8) = "Success:"

\* C28: after create_new_table succeeds for a valid name, the custom scope
\* holds under that name a well-formed table with table_info.name the name, an
\* empty description and no entries, and load_table(name, custom) returns that
\* table; for an empty or invalid name nothing is written to either scope.
C28_CreateWritesEmptyTable ==
    [][ lastOp' = "create_new_table" =>
          LET name == Strip(arg'.text)
              file_name == name \o ".json"
          IN  IF ValidTableName(name)
              THEN Succeeded(ret') =>
                     /\ file_name \in DOMAIN custom_store'
                     /\ custom_store'[file_name].parses
                     /\ DOMAIN custom_store'[file_name].json = {"table_info", "entries"}
                     /\ custom_store'[file_name].json = Table(name, <<>>)
                     /\ LoadTable(custom_store', name) = Some(Table(name, <<>>))
              ELSE store' = store /\ custom_store' = custom_store
      ]_vars

\* The table the window holds was loaded from the standard scope.
StandardLoaded(ed) ==
    ed.open /\ ed.current_table # None /\ ed.current # None /\ ~ed.current[1].custom

\* C29: no step of the table editor (selecting a standard or a custom table or
\* a divider, create, add row, delete row, save) changes the standard scope;
\* a save that succeeds has written the custom scope; and the table widget and
\* the add, delete and save buttons are disabled whenever the table loaded is
\* a standard one.
C29_StandardScopeUntouched ==
    [][ /\ store' = store
        /\ (lastOp' = "editor_save_table" /\ Succeeded(ret')) =>
              /\ (editor'.current_table_name \o ".json") \in DOMAIN custom_store'
              /\ custom_store'[editor'.current_table_name \o ".json"] =
                     JsonFile(editor'.current_table[1])
        /\ (lastOp' = "create_new_table" /\ Succeeded(ret')) =>
              (Strip(arg'.text) \o ".json") \in DOMAIN custom_store'
        /\ StandardLoaded(editor') => ~editor'.enabled
      ]_vars
\* A save of the custom table t with a typed row, the standard scope as it was.
C29_Witness ==
    /\ lastOp = "editor_save_table"
    /\ Succeeded(ret)
    /\ store = StoreEditor
    /\ custom_store["t.json"] = JsonFile([table_info |-> [name |-> "t", description |-> "Notes"],
                                          entries |-> <<Entry("A", 1, 100), Entry("B", 0, 0)>>])
\* A standard table loaded after a custom one: the controls are disabled.
C29_WitnessStandard ==
    /\ lastOp = "on_table_selected"
    /\ StandardLoaded(editor)
    /\ editor.current[1].name = "exits"
    /\ Len(editor.rows) = 1
    /\ ~editor.enabled
    /\ "t.json" \in DOMAIN custom_store

====
